---- MODULE Spec2Model ----
(***************************************************************************)
(* Soundboard firmware: the audio provider and its PSRAM cache             *)
(* (player/provider.c), the player task (player/player.c), the button and  *)
(* encoder input state machines (core/input_scanner.c) and the action      *)
(* mapper's configuration loader and dispatcher (player/mapper.c).         *)
(***************************************************************************)
EXTENDS Integers, Sequences, FiniteSets, TLC

(***************************************************************************)
(* Bounds of the model.                                                    *)
(***************************************************************************)
\* number of cache slots (the firmware has 64; the scan loops are the same)
CACHE_ENTRY_COUNT == 2
\* cache budget max_cache_bytes, in PCM chunks (config->cache_size_kb)
MaxCacheBytes == 2
\* depth of the player command queue (xQueueCreate(10, ...) in the firmware)
CmdQueueLen == 1
\* depth of the preload queue (PRELOAD_QUEUE_LENGTH is 16 in the firmware)
PreloadQueueLen == 1
\* the tick counter xTaskGetTickCount() is followed up to this value
MaxTick == 1

(***************************************************************************)
(* The storage: three PCM (format tag 1) WAV files.  Sizes are counted in  *)
(* chunks of one player buffer.                                            *)
(***************************************************************************)
Files == {"a.wav", "b.wav", "c.wav"}

NULL == "NULL"

\* d.wav is asked for only where the model follows the provider's API call
\* by call: its PCM data is larger than CACHE_ITEM_MAXSIZE
FileChunks(f) == IF f = "b.wav" THEN 2 ELSE IF f = "d.wav" THEN 3 ELSE 1

\* frame rate of the file's fmt chunk (all files are 16 bit mono)
FileFormat(f) == IF f = "a.wav" THEN 48000 ELSE 44100

Slots == 0 .. (CACHE_ENTRY_COUNT - 1)

VARIABLES
    \* ---- audio_provider_state_t
    cache,                \* cache[i]: cache_entry_t
    used_cache_bytes,
    cache_mutex,          \* "free" or the task holding it
    active_stream_count,
    preload_queue,
    notified,             \* pending task notification of the preload task
    \* ---- player_state_t and the player task
    ppc,                  \* position of the player task
    cmd,                  \* the command being processed
    cmd_queue,
    stream,               \* player->stream
    entry,                \* open_stream's local: slot of the cache hit, or -1
    sd_gpio,              \* amplifier enable line (set_i2s_sd_gpio)
    last_format,          \* last_frame_rate / last_bit_depth / last_channels
    last_progress_tick,
    events,               \* the last event handed to event_cb
    \* ---- the preload task (cache_task / cache_file_internal)
    tpc,
    item,
    total_bytes,
    slot,
    victim,
    buffer,               \* the malloc'ed PSRAM buffer is non-NULL
    total_read,
    \* ---- FreeRTOS tick
    tick,
    \* ---- one WAV file read through a cache stream and through a file stream
    rpc,                  \* "start", "cached" or "failed" ("off": not in use)
    wav_channels,         \* num_channels of the fmt chunk
    wav_data,             \* the bytes of the data chunk
    buffer_samples,       \* the caller's buffer size, in samples
    pcm,                  \* entry->buffer, as int16_t samples
    total_samples,        \* entry->total_samples
    c_position,           \* stream->cache.position
    c_eof,                \* eof_reached of the cache stream
    c_out,                \* the samples the cache stream has returned
    f_bytes_read,         \* stream->wav.bytes_read
    f_eof,                \* eof_reached of the file stream
    f_out,                \* the samples the file stream has returned
    \* ---- one button of the input scanner: button_state_info_t
    btn_state,            \* btn->state ("off": not in use)
    state_change_time_us,
    press_start_time_us,
    long_press_triggered,
    debounce_press_us,
    debounce_release_us,
    long_press_us,
    btn_now,              \* esp_timer_get_time() of the last scan
    pressed,              \* the level of the last scan
    btn_events,           \* the events handed to btn->callback
    \* the latest run of pressed samples: its first, last and ending scan
    run_start,
    run_last,
    run_end,
    run_from_idle,        \* the run began with the FSM in IDLE
    run_mark,             \* Len(btn_events) when the run began
    \* ---- the rotary encoder: encoder_state_info_t
    last_clk,             \* -1: not in use
    last_dt,
    step_counter,
    last_transition_us,
    debounce_us,
    enc_now,              \* esp_timer_get_time() of the last poll
    enc_events,           \* the events handed to enc->callback
    \* the latest run of accepted steps in one direction
    steps_dir,            \* its direction as decoded by the table, 0: none
    steps_len,            \* its length so far
    steps_from_zero,      \* step_counter was 0 when it began
    steps_mark,           \* Len(enc_events) when it began
    \* ---- the mapper: struct mapper_s and the load in progress
    mpc,                  \* "off", "init", "open", "read", "ready", "failed"
    source_cfg,           \* per source: "null", "missing" or "present"
    src,                  \* the source being loaded: 1 SPIFFS, 2 SD card
    any_loaded,
    pending,              \* what of the current line fgets has not returned yet
    reads,                \* lines taken from the sources so far
    pages,                \* the ring of page nodes, from first_page along next
    current_page,         \* page_id of the current page, NULL: none
    page_count,
    encoder_mode,
    button_fsm_state,
    current_button,
    current_filename,
    handle,               \* *out_handle has been set
    init_ret,             \* what mapper_init returned, NULL: not yet
    mapper_out,           \* the calls the last handler made, in order
    \* what the sources said and what the last event met
    last_line,            \* per key: the action of the last line with that key
    line_kind,            \* the kind of the line being read
    abort_kind,           \* the kind of the line the load aborted at
    evt,                  \* the last event handled
    ev_page,              \* current_page when it arrived
    ev_mode,              \* encoder_mode when it arrived
    ev_button,            \* current_button when it arrived
    executed,             \* the action execute_action ran for it
    cycle,                \* how far the last events are into press, long press,
                          \* release, press, release of one play_lock button
    sustained,            \* the button that was latched and held when another
                          \* button's play replaced it, not pressed or latched
                          \* since; 0: none
    \* ---- validate_line on one line
    vpc,                  \* "off", "line", "done"
    v_line,               \* the line
    v_root,               \* the root of its source
    v_parsed,             \* what validate_line made of it
    \* ---- the entry of a page: preload_current_page_files call by call
    epc,                  \* "off", "page", "calls", "entered"
    pl_mappings,          \* the mapping list of the page entered
    pl_calls,             \* the calls still to make
    pl_sent,              \* the files handed to xQueueSend so far
    \* ---- send_chunk and its caller, seen from the sink
    kpc,                  \* "off", "idle", "playing"
    k_remaining,          \* samples the stream has left
    k_samples,            \* samples_read of the last read
    k_ret,                \* what the last i2s_channel_write returned
    k_written,            \* its bytes_written
    k_event,              \* the last event handed to event_cb
    \* ---- the software volume: player_state_t and the tasks that use it
    volume_mutex,         \* "free" or the task holding it ("off": not in use)
    vol_current,
    sw_volume_factor,
    caller_pc,            \* per caller of the volume API: its position
    caller_index,         \* per caller: its local index / new_index
    caller_ret,           \* per caller: what player_volume_get handed back
    caller_calls,         \* per caller: the calls of the volume API so far
    lpc,                  \* the player task in send_chunk
    volume_factor,        \* send_chunk's local copy of the factor
    \* ---- apply_software_volume on one sample
    apc,                  \* "off", "in", "out"
    a_sample,             \* the sample in the buffer
    a_low,                \* two volume indexes, a_low <= a_high
    a_high,
    a_out_low,            \* the sample after scaling at a_low
    a_out_high,           \* the sample after scaling at a_high
    \* ---- the provider's API, call by call
    preload_ret,          \* what the last audio_provider_preload returned
    entry_mutex,          \* cache[i].mutex: "free" or the task holding it
    \* ---- the Progress callbacks of the player task
    progress_at,          \* tick of the last PROGRESS callback, -1 before one
    progress_gap,         \* ticks between the last two of them, -1 before two
    protocol              \* the events handed to event_cb so far, summed up

provider_vars == <<cache, used_cache_bytes, cache_mutex, active_stream_count,
                   preload_queue, notified>>

player_vars == <<ppc, cmd, cmd_queue, stream, entry, sd_gpio, last_format,
                 last_progress_tick, events>>

preload_vars == <<tpc, item, total_bytes, slot, victim, buffer, total_read>>

audio_vars == <<provider_vars, player_vars, preload_vars, tick>>

read_vars == <<rpc, wav_channels, wav_data, buffer_samples, pcm, total_samples,
               c_position, c_eof, c_out, f_bytes_read, f_eof, f_out>>

button_vars == <<btn_state, state_change_time_us, press_start_time_us,
                 long_press_triggered, debounce_press_us, debounce_release_us,
                 long_press_us, btn_now, pressed, btn_events, run_start,
                 run_last, run_end, run_from_idle, run_mark>>

encoder_vars == <<last_clk, last_dt, step_counter, last_transition_us,
                  debounce_us, enc_now, enc_events, steps_dir, steps_len,
                  steps_from_zero, steps_mark>>

load_vars == <<source_cfg, src, any_loaded, pending, reads, last_line,
               line_kind, abort_kind>>

event_vars == <<encoder_mode, button_fsm_state, current_button,
                current_filename, evt, ev_page, ev_mode, ev_button, executed,
                cycle>>

mapper_vars == <<mpc, pages, current_page, page_count, handle, init_ret,
                 mapper_out, load_vars, event_vars>>

parse_vars == <<vpc, v_line, v_root, v_parsed>>

entry_vars == <<epc, pl_mappings, pl_calls, pl_sent>>

sink_vars == <<kpc, k_remaining, k_samples, k_ret, k_written, k_event>>

volume_vars == <<volume_mutex, vol_current, sw_volume_factor, caller_pc,
                 caller_index, caller_ret, caller_calls, lpc, volume_factor>>

scale_vars == <<apc, a_sample, a_low, a_high, a_out_low, a_out_high>>

api_vars == <<preload_ret, entry_mutex>>

throttle_vars == <<progress_at, progress_gap, protocol>>

sustain_vars == <<sustained>>

\* the groups that neither the provider's API nor the Progress callbacks touch
not_api_throttle == <<read_vars, button_vars, encoder_vars, mapper_vars, parse_vars,
    entry_vars, sink_vars, volume_vars, scale_vars,
    sustain_vars>>

\* what the player and the preload task leave alone
other_vars == <<read_vars, button_vars, encoder_vars, mapper_vars, parse_vars,
                entry_vars, sink_vars, volume_vars, scale_vars,
    api_vars, throttle_vars, sustain_vars>>

\* what the actions of one component leave alone of the others
not_read == <<audio_vars, button_vars, encoder_vars, mapper_vars, parse_vars,
    entry_vars, sink_vars, volume_vars, scale_vars,
    api_vars, throttle_vars, sustain_vars>>

not_button == <<audio_vars, read_vars, encoder_vars, mapper_vars, parse_vars,
    entry_vars, sink_vars, volume_vars, scale_vars,
    api_vars, throttle_vars, sustain_vars>>

not_encoder == <<audio_vars, read_vars, button_vars, mapper_vars, parse_vars,
    entry_vars, sink_vars, volume_vars, scale_vars,
    api_vars, throttle_vars, sustain_vars>>

not_parse == <<audio_vars, read_vars, button_vars, encoder_vars, mapper_vars,
    entry_vars, sink_vars, volume_vars, scale_vars,
    api_vars, throttle_vars, sustain_vars>>

not_mapper == <<audio_vars, read_vars, button_vars, encoder_vars, parse_vars,
    entry_vars, sink_vars, volume_vars, scale_vars,
    api_vars, throttle_vars, sustain_vars>>

not_entry == <<audio_vars, read_vars, button_vars, encoder_vars, mapper_vars,
    parse_vars, sink_vars, volume_vars, scale_vars,
    api_vars, throttle_vars, sustain_vars>>

not_sink == <<audio_vars, read_vars, button_vars, encoder_vars, mapper_vars,
    parse_vars, entry_vars, volume_vars, scale_vars,
    api_vars, throttle_vars, sustain_vars>>

not_volume == <<audio_vars, read_vars, button_vars, encoder_vars, mapper_vars,
    parse_vars, entry_vars, sink_vars, scale_vars,
    api_vars, throttle_vars, sustain_vars>>

not_scale == <<audio_vars, read_vars, button_vars, encoder_vars, mapper_vars,
    parse_vars, entry_vars, sink_vars, volume_vars,
    api_vars, throttle_vars, sustain_vars>>

not_api == <<read_vars, button_vars, encoder_vars, mapper_vars, parse_vars,
    entry_vars, sink_vars, volume_vars, scale_vars, throttle_vars, sustain_vars>>

vars == <<audio_vars, other_vars>>

(***************************************************************************)
(* Records                                                                 *)
(***************************************************************************)
EmptyEntry == [filename |-> NULL, buffer |-> FALSE, buf_size |-> 0,
               total_samples |-> 0, ref_count |-> 0, last_access_tick |-> 0]

NoStream == [type |-> NULL, filename |-> NULL, entry |-> -1,
             position |-> 0, eof_reached |-> FALSE]

NoCmd == [type |-> NULL, filename |-> NULL, interrupt_now |-> FALSE]

PlayCmd(f) == [type |-> "PLAY", filename |-> f, interrupt_now |-> FALSE]

StopCmd(b) == [type |-> "STOP", filename |-> NULL, interrupt_now |-> b]

Commands == {PlayCmd(f) : f \in Files} \cup {StopCmd(b) : b \in BOOLEAN}

Event(name, f) == [name |-> name, filename |-> f]

\* event_cb(event, user_ctx): the log keeps the last event handed over
Emit(log, e) == <<e>>

(***************************************************************************)
(* provider.c: cache helpers                                               *)
(***************************************************************************)
RECURSIVE lookup_from(_, _, _)
lookup_from(c, filename, i) ==
    IF i >= CACHE_ENTRY_COUNT THEN -1
    ELSE IF c[i].filename # NULL /\ c[i].filename = filename THEN i
    ELSE lookup_from(c, filename, i + 1)

\* index of the first entry holding filename, -1 for a miss
cache_lookup(c, filename) == lookup_from(c, filename, 0)

\* the start value of the LRU scan; the tick type is narrowed to 31 bits
UINT32_MAX == 2147483647

RECURSIVE lru_scan(_, _, _, _)
lru_scan(c, i, victim_idx, oldest_tick) ==
    IF i >= CACHE_ENTRY_COUNT THEN victim_idx
    ELSE IF c[i].filename = NULL THEN lru_scan(c, i + 1, victim_idx, oldest_tick)
    ELSE IF c[i].ref_count > 0 THEN lru_scan(c, i + 1, victim_idx, oldest_tick)
    ELSE IF c[i].last_access_tick < oldest_tick
         THEN lru_scan(c, i + 1, i, c[i].last_access_tick)
    ELSE lru_scan(c, i + 1, victim_idx, oldest_tick)

\* the scan without the "skip entries currently in use" test
RECURSIVE lru_scan_in_use(_, _, _, _)
lru_scan_in_use(c, i, victim_idx, oldest_tick) ==
    IF i >= CACHE_ENTRY_COUNT THEN victim_idx
    ELSE IF c[i].filename = NULL THEN lru_scan_in_use(c, i + 1, victim_idx, oldest_tick)
    ELSE IF c[i].last_access_tick < oldest_tick
         THEN lru_scan_in_use(c, i + 1, i, c[i].last_access_tick)
    ELSE lru_scan_in_use(c, i + 1, victim_idx, oldest_tick)

find_lru_victim_in_use(c) == lru_scan_in_use(c, 0, -1, UINT32_MAX)

cache_find_lru_victim(c) == lru_scan(c, 0, -1, UINT32_MAX)

\* the slot after free_cache_entry: buffer and filename are released.  The
\* other fields keep stale values that nothing reads before cache_store_entry
\* overwrites them all, so an empty slot is shown with zeroes.
free_cache_entry(c, i) ==
    [c EXCEPT ![i] = EmptyEntry]

RECURSIVE empty_from(_, _)
empty_from(c, i) ==
    IF i >= CACHE_ENTRY_COUNT THEN -1
    ELSE IF c[i].filename = NULL THEN i
    ELSE empty_from(c, i + 1)

\* cache_reserve_and_alloc's scan for an empty slot
find_empty_slot(c) == empty_from(c, 0)

\* audio_provider_close_stream's effect on the cache table
close_cache_ref(c, s) ==
    IF s.type = "CACHE" /\ c[s.entry].ref_count > 0
    THEN [c EXCEPT ![s.entry].ref_count = @ - 1]
    ELSE c

(***************************************************************************)
(* Initial state: audio_provider_init, player_init                         *)
(***************************************************************************)
audio_init ==
    /\ cache = [i \in Slots |-> EmptyEntry]
    /\ used_cache_bytes = 0
    /\ cache_mutex = "free"
    /\ active_stream_count = 0
    /\ preload_queue = <<>>
    /\ notified = FALSE
    /\ ppc = "loop"
    /\ cmd = NoCmd
    /\ cmd_queue = <<>>
    /\ stream = NoStream
    /\ entry = -1
    /\ sd_gpio = FALSE
    /\ last_format = 48000
    /\ last_progress_tick = 0
    /\ events = <<>>
    /\ tpc = "idle"
    /\ item = NULL
    /\ total_bytes = 0
    /\ slot = -1
    /\ victim = -1
    /\ buffer = FALSE
    /\ total_read = 0
    /\ tick = 0

\* the stream comparison is not in use
read_idle ==
    /\ rpc = "off"
    /\ wav_channels = 0
    /\ wav_data = <<>>
    /\ buffer_samples = 0
    /\ pcm = <<>>
    /\ total_samples = 0
    /\ c_position = 0
    /\ c_eof = FALSE
    /\ c_out = <<>>
    /\ f_bytes_read = 0
    /\ f_eof = FALSE
    /\ f_out = <<>>

\* the button is not in use
button_idle ==
    /\ btn_state = "off"
    /\ state_change_time_us = 0
    /\ press_start_time_us = 0
    /\ long_press_triggered = FALSE
    /\ debounce_press_us = 0
    /\ debounce_release_us = 0
    /\ long_press_us = 0
    /\ btn_now = 0
    /\ pressed = FALSE
    /\ btn_events = <<>>
    /\ run_start = -1
    /\ run_last = -1
    /\ run_end = -1
    /\ run_from_idle = FALSE
    /\ run_mark = 0

\* the encoder is not in use
encoder_idle ==
    /\ last_clk = -1
    /\ last_dt = -1
    /\ step_counter = 0
    /\ last_transition_us = 0
    /\ debounce_us = 0
    /\ enc_now = 0
    /\ enc_events = <<>>
    /\ steps_dir = 0
    /\ steps_len = 0
    /\ steps_from_zero = FALSE
    /\ steps_mark = 0

\* ---- the mapper's data (mapper.c, mapper.h)

PAGE_ID_MAX_LEN == 32

\* char line[512] of load_mappings_from_file
LINE_BUF == 512

\* what one fgets holds once the line end is cut and the text trimmed:
\* nothing, a comment, fewer than four fields, or the fields
Line(k) == [kind |-> k, page |-> "", button |-> 0, event |-> "", action |-> "",
            params |-> <<>>]

Blank == Line("blank")
Comment == Line("comment")
Short == Line("short")
NoTail == Line("none")

Fields(p, b, e, a, ps) ==
    [kind |-> "fields", page |-> p, button |-> b, event |-> e, action |-> a,
     params |-> ps]

\* the lines the sources are written from: the keys they bind, the actions
\* with their parameters, and one line against each rule of validate_line
LineKeys ==
    {<<"p1", 1, "press">>, <<"p1", 1, "release">>, <<"p1", 2, "press">>,
     <<"p1", 2, "long_press">>, <<"p2", 1, "press">>}

ActionForms ==
    {<<"stop", <<>>>>, <<"stop", <<"x.wav">>>>, <<"play", <<"x.wav">>>>,
     <<"play", <<"x.wav", "y.wav">>>>, <<"play_cut", <<"x.wav">>>>,
     <<"play_lock", <<"x.wav">>>>}

LongPageId == "a-page-identifier-of-32-characters"

FieldLines ==
    {Fields(k[1], k[2], k[3], f[1], f[2]) : k \in LineKeys, f \in ActionForms}
    \cup {Fields("", 1, "press", "stop", <<>>),
          Fields(LongPageId, 1, "press", "stop", <<>>),
          Fields("p1", 0, "press", "stop", <<>>),
          Fields("p1", 13, "press", "stop", <<>>),
          Fields("p1", 1, "hold", "stop", <<>>),
          Fields("p1", 1, "press", "jump", <<>>),
          Fields("p1", 1, "press", "play", <<>>)}

NoAction == [type |-> "NONE", filename |-> NULL]

Roots == <<"/spiffs", "/sdcard">>

\* the keys a line can bind
Keys ==
    {<<"p1", 1, "BUTTON_PRESS">>, <<"p1", 1, "BUTTON_RELEASE">>,
     <<"p1", 2, "BUTTON_PRESS">>, <<"p1", 2, "BUTTON_LONG_PRESS">>,
     <<"p2", 1, "BUTTON_PRESS">>}

NoEvent == [button |-> 0, event |-> "none"]

\* the mapper is not in use
mapper_idle ==
    /\ mpc = "off"
    /\ source_cfg = <<"null", "null">>
    /\ src = 1
    /\ any_loaded = FALSE
    /\ pending = NoTail
    /\ reads = 0
    /\ pages = <<>>
    /\ current_page = NULL
    /\ page_count = 0
    /\ encoder_mode = "VOLUME"
    /\ button_fsm_state = "INITIAL"
    /\ current_button = 0
    /\ current_filename = NULL
    /\ handle = FALSE
    /\ init_ret = NULL
    /\ mapper_out = <<>>
    /\ last_line = [k \in Keys |-> NoAction]
    /\ line_kind = "none"
    /\ abort_kind = "none"
    /\ evt = NoEvent
    /\ ev_page = NULL
    /\ ev_mode = "VOLUME"
    /\ ev_button = 0
    /\ executed = NoAction
    /\ cycle = 0

Invalid == [ok |-> FALSE, page_id |-> "", button_number |-> 0, event |-> "INVALID",
            action |-> NoAction]

\* validate_line is not in use
parse_idle ==
    /\ vpc = "off"
    /\ v_line = NoTail
    /\ v_root = ""
    /\ v_parsed = Invalid

\* no page is being entered
entry_idle ==
    /\ epc = "off"
    /\ pl_mappings = <<>>
    /\ pl_calls = <<>>
    /\ pl_sent = <<>>

sink_idle ==
    /\ kpc = "off"
    /\ k_remaining = 0
    /\ k_samples = 0
    /\ k_ret = NULL
    /\ k_written = 0
    /\ k_event = NULL

volume_idle ==
    /\ volume_mutex = "off"
    /\ vol_current = 0
    /\ sw_volume_factor = 0
    /\ caller_pc = <<>>
    /\ caller_index = <<>>
    /\ caller_ret = <<>>
    /\ caller_calls = <<>>
    /\ lpc = "off"
    /\ volume_factor = 0

scale_idle ==
    /\ apc = "off"
    /\ a_sample = 0
    /\ a_low = 0
    /\ a_high = 0
    /\ a_out_low = 0
    /\ a_out_high = 0

\* no button is held
sustain_idle == sustained = 0

\* no event has been handed to event_cb: the command of the last iteration
\* of player_task, whether it found the player idle, the events it emitted,
\* whether a Started is open, the Stopped and Error events since the last
\* Started and between the last two (-1: none yet), and whether a Stopped
\* or a Progress came with no Started open
NoProtocol ==
    [cmd |-> "none", idle |-> TRUE, emitted |-> <<>>, open |-> FALSE,
     closers |-> -1, between |-> -1, orphan |-> FALSE]

\* no PROGRESS callback is followed
throttle_idle ==
    /\ progress_at = -1
    /\ progress_gap = -1
    /\ protocol = NoProtocol

\* the provider's API is not followed call by call
api_idle ==
    /\ preload_ret = NULL
    /\ entry_mutex = <<>>

Init == audio_init /\ read_idle /\ button_idle /\ encoder_idle /\ mapper_idle /\ parse_idle
    /\ entry_idle /\ sink_idle /\ volume_idle /\ scale_idle /\ api_idle
    /\ throttle_idle /\ sustain_idle

(***************************************************************************)
(* Callers of the public API and the tick interrupt                        *)
(***************************************************************************)
\* player_play / player_stop -> send_cmd: the command is queued unless the
\* queue stays full
send_cmd(c) ==
    /\ Len(cmd_queue) < CmdQueueLen
    /\ cmd_queue' = Append(cmd_queue, c)
    /\ UNCHANGED <<provider_vars, ppc, cmd, stream, entry, sd_gpio,
                   last_format, last_progress_tick, events, preload_vars, tick, other_vars>>

player_play == \E f \in Files : send_cmd(PlayCmd(f))

player_stop == \E b \in BOOLEAN : send_cmd(StopCmd(b))

\* audio_provider_preload: non-blocking send, dropped when the queue is full
audio_provider_preload ==
    \E f \in Files :
        /\ preload_queue' = IF Len(preload_queue) < PreloadQueueLen
                            THEN Append(preload_queue, f)
                            ELSE preload_queue
        /\ UNCHANGED <<cache, used_cache_bytes, cache_mutex, active_stream_count,
                       notified, player_vars, preload_vars, tick, other_vars>>

audio_provider_flush_preload_queue ==
    /\ preload_queue' = <<>>
    /\ UNCHANGED <<cache, used_cache_bytes, cache_mutex, active_stream_count,
                   notified, player_vars, preload_vars, tick, other_vars>>

\* the tick interrupt: xTaskGetTickCount() advances
Tick ==
    /\ tick < MaxTick
    /\ tick' = tick + 1
    /\ UNCHANGED <<provider_vars, player_vars, preload_vars, other_vars>>

(***************************************************************************)
(* player.c: the player task                                               *)
(***************************************************************************)
\* close_stream that drops the stream without giving its resource back
close_stream_leak(c, event, enable_amp) ==
    /\ cache' = c
    /\ UNCHANGED <<active_stream_count, notified>>
    /\ stream' = NoStream
    /\ sd_gpio' = enable_amp
    /\ events' = Emit(events, Event(event, NULL))

\* close_stream(player, event, error_code, enable_amp) with a stream open:
\* audio_provider_close_stream releases the cache reference or the file
\* handle (waking the preload task when the last file stream goes), then
\* the amplifier line is set and the event is fired
close_stream(c, event, enable_amp) ==
    /\ cache' = close_cache_ref(c, stream)
    /\ active_stream_count' = IF stream.type = "WAV_FILE"
                              THEN active_stream_count - 1
                              ELSE active_stream_count
    /\ notified' = IF stream.type = "WAV_FILE" /\ active_stream_count - 1 = 0
                   THEN TRUE
                   ELSE notified
    /\ stream' = NoStream
    /\ sd_gpio' = enable_amp
    /\ events' = Emit(events, Event(event, NULL))

\* close_stream with player->stream == NULL: only the line and the event
close_no_stream(event, enable_amp) ==
    /\ sd_gpio' = enable_amp
    /\ events' = Emit(events, Event(event, NULL))

\* cmd_play that goes on to open the new stream over the current one
cmd_play_keep ==
    /\ ppc = "loop"
    /\ cmd_queue # <<>>
    /\ Head(cmd_queue).type = "PLAY"
    /\ cmd' = Head(cmd_queue)
    /\ cmd_queue' = Tail(cmd_queue)
    /\ ppc' = "open"
    /\ UNCHANGED <<provider_vars, stream, sd_gpio, events, entry,
                   last_format, last_progress_tick, preload_vars, tick, other_vars>>

\* player_task, xQueueReceive returned a PLAY command: cmd_play tears the
\* current stream down and goes on to audio_provider_open_stream
cmd_play_close ==
    /\ ppc = "loop"
    /\ cmd_queue # <<>>
    /\ Head(cmd_queue).type = "PLAY"
    /\ cmd' = Head(cmd_queue)
    /\ cmd_queue' = Tail(cmd_queue)
    /\ IF stream # NoStream
       THEN close_stream(cache, "STOPPED", TRUE)
       ELSE UNCHANGED <<cache, active_stream_count, notified, stream, sd_gpio, events>>
    /\ ppc' = "open"
    /\ UNCHANGED <<used_cache_bytes, cache_mutex, preload_queue, entry,
                   last_format, last_progress_tick, preload_vars, tick, other_vars>>

\* cmd_stop that treats every stop as a non-immediate one
cmd_stop_later ==
    /\ ppc = "loop"
    /\ cmd_queue # <<>>
    /\ Head(cmd_queue).type = "STOP"
    /\ cmd' = NoCmd
    /\ cmd_queue' = Tail(cmd_queue)
    /\ ppc' = IF stream = NoStream THEN "loop" ELSE "chunk"
    /\ UNCHANGED <<provider_vars, stream, sd_gpio, events, entry,
                   last_format, last_progress_tick, preload_vars, tick, other_vars>>

\* cmd_stop that closes the stream with the amplifier left on
cmd_stop_amp_on ==
    /\ ppc = "loop"
    /\ cmd_queue # <<>>
    /\ Head(cmd_queue).type = "STOP"
    /\ cmd' = NoCmd
    /\ cmd_queue' = Tail(cmd_queue)
    /\ IF Head(cmd_queue).interrupt_now /\ stream # NoStream
       THEN close_stream(cache, "STOPPED", TRUE)
       ELSE UNCHANGED <<cache, active_stream_count, notified, stream, sd_gpio, events>>
    /\ ppc' = IF stream' = NoStream THEN "loop" ELSE "chunk"
    /\ UNCHANGED <<used_cache_bytes, cache_mutex, preload_queue, entry,
                   last_format, last_progress_tick, preload_vars, tick, other_vars>>

\* player_task, xQueueReceive returned a STOP command: cmd_stop, then the
\* loop goes on to the next chunk if a stream is still open
cmd_stop ==
    /\ ppc = "loop"
    /\ cmd_queue # <<>>
    /\ Head(cmd_queue).type = "STOP"
    /\ cmd' = NoCmd
    /\ cmd_queue' = Tail(cmd_queue)
    /\ IF Head(cmd_queue).interrupt_now /\ stream # NoStream
       THEN close_stream(cache, "STOPPED", FALSE)
       ELSE UNCHANGED <<cache, active_stream_count, notified, stream, sd_gpio, events>>
    /\ ppc' = IF stream' = NoStream THEN "loop" ELSE "chunk"
    /\ UNCHANGED <<used_cache_bytes, cache_mutex, preload_queue, entry,
                   last_format, last_progress_tick, preload_vars, tick, other_vars>>

\* audio_provider_open_stream: xSemaphoreTake(provider->cache_mutex)
open_stream_take ==
    /\ ppc = "open"
    /\ cache_mutex = "free"
    /\ cache_mutex' = "player"
    /\ ppc' = "open_lookup"
    /\ UNCHANGED <<cache, used_cache_bytes, active_stream_count, preload_queue,
                   notified, cmd, cmd_queue, stream, entry, sd_gpio, last_format,
                   last_progress_tick, events, preload_vars, tick, other_vars>>

\* audio_provider_open_stream under the cache mutex: the lookup; on a hit
\* the reference is taken and the timestamp refreshed before the mutex is
\* given back
open_stream_lookup ==
    /\ ppc = "open_lookup"
    /\ LET e == cache_lookup(cache, cmd.filename) IN
         /\ entry' = e
         /\ cache' = IF e >= 0
                     THEN [cache EXCEPT ![e].ref_count = @ + 1,
                                        ![e].last_access_tick = tick]
                     ELSE cache
         /\ ppc' = IF e >= 0 THEN "open_hit" ELSE "open_miss"
    /\ cache_mutex' = "free"
    /\ UNCHANGED <<used_cache_bytes, active_stream_count, preload_queue, notified,
                   cmd, cmd_queue, stream, sd_gpio, last_format,
                   last_progress_tick, events, preload_vars, tick, other_vars>>

\* cmd_play after audio_provider_open_stream returned the stream s:
\* configure_stream (which can fail only when the format changes), then
\* the STARTED event
cmd_play_started(s, c, asc, cfg_ok) ==
    IF FileFormat(s.filename) = last_format \/ cfg_ok
    THEN /\ stream' = s
         /\ cache' = c
         /\ active_stream_count' = asc
         /\ notified' = notified
         /\ last_format' = FileFormat(s.filename)
         /\ sd_gpio' = TRUE
         /\ last_progress_tick' = 0
         /\ events' = Emit(events, Event("STARTED", s.filename))
         /\ ppc' = "chunk"
    ELSE \* close_stream(player, PLAYER_EVENT_ERROR, err, false)
         /\ stream' = NoStream
         /\ cache' = close_cache_ref(c, s)
         /\ active_stream_count' = IF s.type = "WAV_FILE" THEN asc - 1 ELSE asc
         /\ notified' = IF s.type = "WAV_FILE" /\ asc - 1 = 0 THEN TRUE ELSE notified
         /\ sd_gpio' = FALSE
         /\ events' = Emit(events, Event("ERROR", NULL))
         /\ UNCHANGED <<last_format, last_progress_tick, other_vars>>
         /\ ppc' = "loop"

\* cmd_play after audio_provider_open_stream failed
cmd_play_open_failed ==
    /\ close_no_stream("ERROR", FALSE)
    /\ UNCHANGED <<stream, active_stream_count, notified, last_format,
                   last_progress_tick, other_vars>>
    /\ ppc' = "loop"

\* the cache hit path without the rollback of the reference
open_stream_hit_keep_ref ==
    /\ ppc = "open_hit"
    /\ \E alloc_ok \in BOOLEAN, cfg_ok \in BOOLEAN :
         IF alloc_ok
         THEN cmd_play_started([type |-> "CACHE", filename |-> cmd.filename,
                                entry |-> entry, position |-> 0,
                                eof_reached |-> FALSE],
                               cache, active_stream_count, cfg_ok)
         ELSE /\ cache' = cache
              /\ cmd_play_open_failed
    /\ entry' = -1
    /\ cmd' = NoCmd
    /\ UNCHANGED <<used_cache_bytes, cache_mutex, preload_queue, cmd_queue,
                   preload_vars, tick, other_vars>>

\* audio_provider_open_stream, cache hit, after the mutex: the stream
\* structure is allocated; a failed allocation rolls the reference back
open_stream_hit ==
    /\ ppc = "open_hit"
    /\ \E alloc_ok \in BOOLEAN, cfg_ok \in BOOLEAN :
         IF alloc_ok
         THEN cmd_play_started([type |-> "CACHE", filename |-> cmd.filename,
                                entry |-> entry, position |-> 0,
                                eof_reached |-> FALSE],
                               cache, active_stream_count, cfg_ok)
         ELSE /\ cache' = [cache EXCEPT ![entry].ref_count = @ - 1]
              /\ cmd_play_open_failed
    /\ entry' = -1
    /\ cmd' = NoCmd
    /\ UNCHANGED <<used_cache_bytes, cache_mutex, preload_queue, cmd_queue,
                   preload_vars, tick, other_vars>>

\* audio_provider_open_stream, cache miss: fopen, parse_wav_header, the
\* stream structure; then the active stream count is raised
open_stream_miss ==
    /\ ppc = "open_miss"
    /\ \E open_ok \in BOOLEAN, cfg_ok \in BOOLEAN :
         IF open_ok
         THEN cmd_play_started([type |-> "WAV_FILE", filename |-> cmd.filename,
                                entry |-> -1, position |-> 0,
                                eof_reached |-> FALSE],
                               cache, active_stream_count + 1, cfg_ok)
         ELSE /\ cache' = cache
              /\ cmd_play_open_failed
    /\ entry' = -1
    /\ cmd' = NoCmd
    /\ UNCHANGED <<used_cache_bytes, cache_mutex, preload_queue, cmd_queue,
                   preload_vars, tick, other_vars>>

\* pdMS_TO_TICKS(50), the tick being counted in units of 50 ms
ProgressInterval == 1

\* what audio_provider_read_stream has left to deliver, in chunks
stream_remaining(c, s) ==
    IF s.type = "CACHE"
    THEN c[s.entry].total_samples - s.position
    ELSE FileChunks(s.filename) - s.position

\* the cache table after a read of one chunk: a cache stream refreshes the
\* entry's LRU timestamp
read_touch(c, s, now) ==
    IF s.type = "CACHE"
    THEN [c EXCEPT ![s.entry].last_access_tick = now]
    ELSE c

\* send_chunk whose caller handles a transfer error like the end of the stream
send_chunk_error_stops ==
    /\ \/ ppc = "chunk"
       \/ ppc = "loop" /\ cmd_queue = <<>> /\ stream # NoStream
    /\ IF stream.eof_reached \/ stream_remaining(cache, stream) = 0
       THEN /\ close_stream(cache, "STOPPED", FALSE)
            /\ UNCHANGED last_progress_tick
       ELSE \E io \in {"ok", "write_error"} :
              CASE io = "write_error" ->
                     /\ close_stream(read_touch(cache, stream, tick), "STOPPED", FALSE)
                     /\ UNCHANGED last_progress_tick
                [] OTHER ->
                     /\ stream' = [stream EXCEPT !.position = @ + 1]
                     /\ cache' = read_touch(cache, stream, tick)
                     /\ IF tick - last_progress_tick >= ProgressInterval
                        THEN /\ last_progress_tick' = tick
                             /\ events' = Emit(events, Event("PROGRESS", NULL))
                        ELSE UNCHANGED <<last_progress_tick, events>>
                     /\ UNCHANGED <<active_stream_count, notified, sd_gpio>>
    /\ ppc' = "loop"
    /\ UNCHANGED <<used_cache_bytes, cache_mutex, preload_queue, cmd, cmd_queue,
                   entry, last_format, preload_vars, tick, other_vars>>

\* one iteration of player_task with a stream open and no command handled
\* (or after the command): send_chunk, then the handling of its result
send_chunk ==
    /\ \/ ppc = "chunk"
       \/ ppc = "loop" /\ cmd_queue = <<>> /\ stream # NoStream
    /\ IF stream.eof_reached \/ stream_remaining(cache, stream) = 0
       THEN \* no samples: end of stream
            /\ close_stream(cache, "STOPPED", FALSE)
            /\ UNCHANGED last_progress_tick
       ELSE \E io \in {"ok", "read_error", "write_error"} :
              CASE io = "read_error" ->
                     \* fread fails on a file stream
                     /\ stream.type = "WAV_FILE"
                     /\ close_stream(cache, "ERROR", FALSE)
                     /\ UNCHANGED last_progress_tick
                [] io = "write_error" ->
                     \* i2s_channel_write fails after the read
                     /\ close_stream(read_touch(cache, stream, tick), "ERROR", FALSE)
                     /\ UNCHANGED last_progress_tick
                [] OTHER ->
                     /\ stream' = [stream EXCEPT !.position = @ + 1]
                     /\ cache' = read_touch(cache, stream, tick)
                     /\ IF tick - last_progress_tick >= ProgressInterval
                        THEN /\ last_progress_tick' = tick
                             /\ events' = Emit(events, Event("PROGRESS", NULL))
                        ELSE UNCHANGED <<last_progress_tick, events>>
                     /\ UNCHANGED <<active_stream_count, notified, sd_gpio>>
    /\ ppc' = "loop"
    /\ UNCHANGED <<used_cache_bytes, cache_mutex, preload_queue, cmd, cmd_queue,
                   entry, last_format, preload_vars, tick, other_vars>>

(***************************************************************************)
(* provider.c: the preload task (cache_task, cache_file_internal)          *)
(***************************************************************************)
\* the locals of cache_file_internal, dead once it has returned
preload_return ==
    /\ tpc' = "idle"
    /\ item' = NULL
    /\ total_bytes' = 0
    /\ slot' = -1
    /\ victim' = -1
    /\ buffer' = FALSE
    /\ total_read' = 0

\* cache_task: xQueueReceive(preload_queue)
cache_task_receive ==
    /\ tpc = "idle"
    /\ preload_queue # <<>>
    /\ item' = Head(preload_queue)
    /\ preload_queue' = Tail(preload_queue)
    /\ tpc' = "check"
    /\ UNCHANGED <<cache, used_cache_bytes, cache_mutex, active_stream_count,
                   notified, player_vars, total_bytes, slot, victim, buffer,
                   total_read, tick, other_vars>>

\* cache_file_internal without the "already cached" check
cache_file_unchecked ==
    /\ tpc = "check"
    /\ cache_mutex = "free"
    /\ tpc' = "parse"
    /\ UNCHANGED <<item, total_bytes, slot, victim, buffer, total_read>>
    /\ UNCHANGED <<provider_vars, player_vars, tick, other_vars>>

\* cache_file_internal: the "already cached" check, under the cache mutex
cache_file_check ==
    /\ tpc = "check"
    /\ cache_mutex = "free"
    /\ IF cache_lookup(cache, item) >= 0
       THEN preload_return
       ELSE /\ tpc' = "parse"
            /\ UNCHANGED <<item, total_bytes, slot, victim, buffer, total_read>>
    /\ UNCHANGED <<provider_vars, player_vars, tick, other_vars>>

\* cache_parse_wav_file without the limit on the size
cache_parse_any_size ==
    /\ tpc = "parse"
    /\ \E open_ok \in BOOLEAN :
         IF open_ok
         THEN /\ total_bytes' = FileChunks(item)
              /\ tpc' = "reserve"
              /\ UNCHANGED <<item, slot, victim, buffer, total_read>>
         ELSE preload_return
    /\ UNCHANGED <<provider_vars, player_vars, tick, other_vars>>

\* half of the PSRAM: CACHE_ITEM_MAXSIZE, in chunks
CACHE_ITEM_MAXSIZE == 2

\* cache_parse_wav_file (fopen, parse_wav_header, fclose) and the size limit
cache_parse_wav_file ==
    /\ tpc = "parse"
    /\ \E open_ok \in BOOLEAN :
         IF open_ok /\ FileChunks(item) <= CACHE_ITEM_MAXSIZE
         THEN /\ total_bytes' = FileChunks(item)
              /\ tpc' = "reserve"
              /\ UNCHANGED <<item, slot, victim, buffer, total_read>>
         ELSE preload_return
    /\ UNCHANGED <<provider_vars, player_vars, tick, other_vars>>

\* cache_reserve_and_alloc: xSemaphoreTake(provider->cache_mutex)
cache_reserve_take ==
    /\ tpc = "reserve"
    /\ cache_mutex = "free"
    /\ cache_mutex' = "preload"
    /\ tpc' = "reserve_loop"
    /\ UNCHANGED <<cache, used_cache_bytes, active_stream_count, preload_queue,
                   notified, player_vars, item, total_bytes, slot, victim,
                   buffer, total_read, tick, other_vars>>

\* cache_reserve_and_alloc: one turn of the while (true) loop, the cache
\* mutex held.  heap_caps_malloc may fail although the budget allows it.
cache_reserve_and_alloc ==
    /\ tpc = "reserve_loop"
    /\ LET s == IF slot < 0 THEN find_empty_slot(cache) ELSE slot
           v == cache_find_lru_victim(cache)
       IN \E malloc_ok \in BOOLEAN :
            IF s >= 0 /\ used_cache_bytes + total_bytes <= MaxCacheBytes /\ malloc_ok
            THEN \* success: slot, budget and buffer
                 /\ slot' = s
                 /\ buffer' = TRUE
                 /\ used_cache_bytes' = used_cache_bytes + total_bytes
                 /\ cache_mutex' = "free"
                 /\ tpc' = "read"
                 /\ UNCHANGED <<cache, item, total_bytes, victim, total_read>>
            ELSE IF v < 0
            THEN \* no evictable entry: ESP_ERR_NO_MEM
                 /\ cache_mutex' = "free"
                 /\ preload_return
                 /\ UNCHANGED <<cache, used_cache_bytes>>
            ELSE \* evict the LRU entry and try again
                 /\ victim' = v
                 /\ cache' = free_cache_entry(cache, v)
                 /\ used_cache_bytes' = used_cache_bytes - cache[v].buf_size
                 /\ slot' = IF s < 0 THEN v ELSE s
                 /\ UNCHANGED <<cache_mutex, tpc, item, total_bytes, buffer, total_read>>
    /\ UNCHANGED <<active_stream_count, preload_queue, notified, player_vars, tick, other_vars>>

\* cache_read_pcm_data: fopen of the file to cache
cache_read_open ==
    /\ tpc = "read"
    /\ \E open_ok \in BOOLEAN :
         tpc' = IF open_ok THEN "read_loop" ELSE "unreserve"
    /\ UNCHANGED <<provider_vars, player_vars, item, total_bytes, slot, victim,
                   buffer, total_read, tick, other_vars>>

\* cache_read_pcm_data: ulTaskNotifyTake(pdTRUE, portMAX_DELAY) returns while
\* a file stream is active; the inner while tests the count again
cache_read_wait ==
    /\ tpc = "read_loop"
    /\ active_stream_count > 0
    /\ notified
    /\ notified' = FALSE
    /\ UNCHANGED <<cache, used_cache_bytes, cache_mutex, active_stream_count,
                   preload_queue, player_vars, preload_vars, tick, other_vars>>

\* cache_read_pcm_data: one fread of at most WAV_CHUNK_SIZE bytes, no file
\* stream being active; n = 0 leaves the loop with a short total
cache_read_pcm_data ==
    /\ tpc = "read_loop"
    /\ active_stream_count = 0
    /\ \E n \in {0, 1} :
         /\ total_read' = total_read + n
         /\ tpc' = IF n = 0 THEN "unreserve"
                   ELSE IF total_read + n = total_bytes THEN "store"
                   ELSE "read_loop"
    /\ UNCHANGED <<provider_vars, player_vars, item, total_bytes, slot, victim,
                   buffer, tick, other_vars>>

\* cache_file_internal: the read failed, the buffer and the budget go back
cache_unreserve ==
    /\ tpc = "unreserve"
    /\ cache_mutex = "free"
    /\ used_cache_bytes' = used_cache_bytes - total_bytes
    /\ preload_return
    /\ UNCHANGED <<cache, cache_mutex, active_stream_count, preload_queue,
                   notified, player_vars, tick, other_vars>>

\* cache_store_entry, under the cache mutex
cache_store_entry ==
    /\ tpc = "store"
    /\ cache_mutex = "free"
    /\ cache' = [cache EXCEPT ![slot] =
                    [filename |-> item, buffer |-> buffer, buf_size |-> total_bytes,
                     total_samples |-> FileChunks(item), ref_count |-> 0,
                     last_access_tick |-> tick]]
    /\ preload_return
    /\ UNCHANGED <<used_cache_bytes, cache_mutex, active_stream_count,
                   preload_queue, notified, player_vars, tick, other_vars>>

(***************************************************************************)
(* The firmware: player task, preload task and the callers of the API      *)
(***************************************************************************)
Next ==
    \/ player_play
    \/ player_stop
    \/ audio_provider_preload
    \/ audio_provider_flush_preload_queue
    \/ Tick
    \/ cmd_play_close
    \/ cmd_stop
    \/ open_stream_take
    \/ open_stream_lookup
    \/ open_stream_hit
    \/ open_stream_miss
    \/ send_chunk
    \/ cache_task_receive
    \/ cache_file_check
    \/ cache_parse_wav_file
    \/ cache_reserve_take
    \/ cache_reserve_and_alloc
    \/ cache_read_open
    \/ cache_read_wait
    \/ cache_read_pcm_data
    \/ cache_unreserve
    \/ cache_store_entry

Spec == Init /\ [][Next]_vars

(***************************************************************************)
(* Properties of the provider and the player                               *)
(***************************************************************************)
RECURSIVE ref_sum(_, _)
ref_sum(c, i) == IF i >= CACHE_ENTRY_COUNT THEN 0 ELSE c[i].ref_count + ref_sum(c, i + 1)

\* the streams the provider accounts for
open_resources == active_stream_count + ref_sum(cache, 0)

\* a cache stream's entry still holds the stream's file, buffer included
C1_StreamEntryLive ==
    stream.type = "CACHE" =>
        /\ cache[stream.entry].filename = stream.filename
        /\ cache[stream.entry].buffer
        /\ cache[stream.entry].ref_count > 0

\* no step picks a referenced entry as victim or frees it
C1_Step ==
    \A i \in Slots :
        (cache[i].filename # NULL /\ cache[i].ref_count > 0) =>
            /\ victim' # i
            /\ cache'[i].filename = cache[i].filename
            /\ cache'[i].buffer

\* C1: in every interleaving of the player task with the preload task, a
\* cache entry with ref_count > 0 is never chosen as eviction victim and
\* never freed, and the entry behind an open cache stream stays in place.
C1_RefCountSafety == [](C1_StreamEntryLive) /\ [][C1_Step]_vars

\* the preload task has evicted an entry in cache_reserve_and_alloc while the
\* player holds a cache stream on another entry
C1_Witness ==
    /\ tpc = "reserve_loop"
    /\ victim >= 0
    /\ stream.type = "CACHE"
    /\ cache[stream.entry].ref_count > 0

\* C2: the player holds at most one open stream: active_stream_count plus
\* the sum of the ref_counts is 0 or 1, it is 1 while the player holds a
\* stream and 0 while it holds none (a cache-hit open in progress apart).
C2_SingleStream ==
    /\ open_resources \in {0, 1}
    /\ stream # NoStream => open_resources = 1
    /\ (stream = NoStream /\ ppc # "open_hit") => open_resources = 0

\* a Play has torn a stream down and has taken the reference of its own
\* cache hit
C2_Witness ==
    /\ ppc = "open_hit"
    /\ events = <<Event("STOPPED", NULL)>>
    /\ sd_gpio
    /\ cache[entry].ref_count = 1

\* the resource of stream s is released between the two cache tables and
\* counts
released(s, c1, n1, c2, n2) ==
    IF s.type = "CACHE"
    THEN c2[s.entry].ref_count = c1[s.entry].ref_count - 1 /\ n2 = n1
    ELSE n2 = n1 - 1 /\ c2 = c1

C3_Step ==
    \* the dequeue of a Play with a stream open: closed, released, Stopped
    /\ (ppc = "loop" /\ ppc' = "open" /\ stream # NoStream) =>
          /\ stream' = NoStream
          /\ released(stream, cache, active_stream_count,
                      cache', active_stream_count')
          /\ events' = <<Event("STOPPED", NULL)>>
    \* the open and the Started event come with no stream open
    /\ (ppc \in {"open_hit", "open_miss"} /\ ppc' = "chunk") =>
          /\ stream = NoStream
          /\ stream'.filename = cmd.filename
          /\ events' = <<Event("STARTED", cmd.filename)>>
    \* a stream is only ever installed by that step
    /\ (stream' # NoStream /\ stream' # stream) =>
          \/ stream = NoStream /\ ppc \in {"open_hit", "open_miss"}
          \/ stream' = [stream EXCEPT !.position = @ + 1]

\* between the dequeue of a Play and the open, nothing of the old stream is
\* left
C3_Released ==
    /\ ppc \in {"open", "open_lookup", "open_miss"} =>
          stream = NoStream /\ open_resources = 0
    /\ ppc = "open_hit" =>
          stream = NoStream /\ open_resources = cache[entry].ref_count

\* C3: when Play(y) is dequeued while a stream for x is open, the player
\* first closes x's stream, releasing its file handle or cache reference,
\* and emits Stopped, and only then opens y and emits Started(y); Started
\* is never emitted while another stream is open.
C3_PreemptOrdering == [](C3_Released) /\ [][C3_Step]_vars

\* a Play has been dequeued with a stream open: Stopped is out with the
\* amplifier left on, and the open of the new file has not started
C3_Witness ==
    /\ ppc = "open"
    /\ cmd.type = "PLAY"
    /\ stream = NoStream
    /\ events = <<Event("STOPPED", NULL)>>
    /\ sd_gpio

(***************************************************************************)
(* provider.c: one 16 bit PCM file read to its end through a cache stream  *)
(* and through a file stream, with the same caller buffer                  *)
(***************************************************************************)
\* longest data chunk, in bytes
MaxDataBytes == 6
\* largest num_channels
MaxChannels == 2
\* largest caller buffer, in samples
MaxBufferSamples == 3

\* WAV_CHUNK_SIZE, scaled down from 4096 bytes
WAV_CHUNK_SIZE == 4

\* the byte values the data chunk is made of
Bytes == {0, 255}

RECURSIVE ByteSeqs(_)
ByteSeqs(n) ==
    IF n = 0 THEN {<<>>}
    ELSE LET shorter == ByteSeqs(n - 1)
         IN shorter \cup {Append(b, x) : b \in {q \in shorter : Len(q) = n - 1},
                                         x \in Bytes}

\* the int16_t stored little-endian in two bytes
int16(lo, hi) ==
    LET u == lo + 256 * hi IN IF u >= 32768 THEN u - 65536 ELSE u

\* the first n int16_t values of a buffer holding the bytes b
samples_of(b, n) == [i \in 1 .. n |-> int16(b[2 * i - 1], b[2 * i])]

Min(a, b) == IF a < b THEN a ELSE b

\* parse_wav_header: total_frames = data_size / ((bit_depth / 8) * channels)
total_frames(data_size, channels) == data_size \div ((16 \div 8) * channels)

\* cache_parse_wav_file: total_bytes = total_frames * channels * sizeof(int16_t)
cache_total_bytes(data_size, channels) ==
    total_frames(data_size, channels) * channels * 2

read_init ==
    /\ rpc = "start"
    /\ wav_channels \in 1 .. MaxChannels
    /\ wav_data \in ByteSeqs(MaxDataBytes)
    /\ buffer_samples \in 1 .. MaxBufferSamples
    /\ pcm = <<>>
    /\ total_samples = 0
    /\ c_position = 0
    /\ c_eof = FALSE
    /\ c_out = <<>>
    /\ f_bytes_read = 0
    /\ f_eof = FALSE
    /\ f_out = <<>>

ReadInit == audio_init /\ read_init /\ button_idle /\ encoder_idle /\ mapper_idle /\ parse_idle
    /\ entry_idle /\ sink_idle /\ volume_idle /\ scale_idle /\ api_idle
    /\ throttle_idle /\ sustain_idle

\* cache_file_internal on the file: total_bytes bytes are read into the
\* buffer and the entry is stored
cache_commit ==
    /\ rpc = "start"
    /\ LET n == cache_total_bytes(Len(wav_data), wav_channels) IN
         /\ pcm' = samples_of(SubSeq(wav_data, 1, n), n \div 2)
         /\ total_samples' = total_frames(Len(wav_data), wav_channels) * wav_channels
    /\ rpc' = "cached"
    /\ UNCHANGED <<wav_channels, wav_data, buffer_samples, c_position, c_eof,
                   c_out, f_bytes_read, f_eof, f_out, not_read>>

\* cache_reserve_and_alloc with total_bytes = 0: heap_caps_malloc(0) may
\* return NULL, and the file is not cached
cache_commit_nomem ==
    /\ rpc = "start"
    /\ cache_total_bytes(Len(wav_data), wav_channels) = 0
    /\ rpc' = "failed"
    /\ UNCHANGED <<wav_channels, wav_data, buffer_samples, pcm, total_samples,
                   c_position, c_eof, c_out, f_bytes_read, f_eof, f_out,
                   not_read>>

\* audio_provider_read_stream, cache read path
read_stream_cache ==
    /\ rpc = "cached"
    /\ ~c_eof
    /\ LET remaining == total_samples - c_position
           to_read == Min(buffer_samples, remaining)
       IN IF remaining = 0
          THEN /\ c_eof' = TRUE
               /\ UNCHANGED <<c_position, c_out>>
          ELSE /\ c_out' = c_out \o SubSeq(pcm, c_position + 1, c_position + to_read)
               /\ c_position' = c_position + to_read
               /\ UNCHANGED c_eof
    /\ UNCHANGED <<rpc, wav_channels, wav_data, buffer_samples, pcm,
                   total_samples, f_bytes_read, f_eof, f_out, not_read>>

\* audio_provider_read_stream, WAV file read path; data_size is the length
\* of the data chunk and fread delivers what it is asked for
read_stream_file ==
    /\ rpc \in {"start", "cached", "failed"}
    /\ ~f_eof
    /\ LET bytes_remaining == Len(wav_data) - f_bytes_read
           bytes_to_read == Min(Min(buffer_samples * 2, bytes_remaining),
                                WAV_CHUNK_SIZE)
           bytes == SubSeq(wav_data, f_bytes_read + 1, f_bytes_read + bytes_to_read)
       IN IF bytes_remaining = 0
          THEN /\ f_eof' = TRUE
               /\ UNCHANGED <<f_bytes_read, f_out>>
          ELSE /\ f_bytes_read' = f_bytes_read + bytes_to_read
               /\ f_out' = f_out \o samples_of(bytes, bytes_to_read \div 2)
               /\ UNCHANGED f_eof
    /\ UNCHANGED <<rpc, wav_channels, wav_data, buffer_samples, pcm,
                   total_samples, c_position, c_eof, c_out, not_read>>

ReadNext ==
    \/ cache_commit
    \/ cache_commit_nomem
    \/ read_stream_cache
    \/ read_stream_file

SpecRead == ReadInit /\ [][ReadNext]_vars

\* C4: for a 16 bit PCM file committed to the cache, the samples returned
\* by repeated read_stream calls on a cache stream, up to its end, are the
\* samples returned by repeated read_stream calls on a file stream of the
\* same file, for every caller buffer size.
C4_Transparency ==
    (rpc = "cached" /\ c_eof /\ f_eof) => c_out = f_out

\* the same for the files whose data chunk holds no sample beyond its last
\* whole frame
C4_WholeFrames ==
    (rpc = "cached" /\ c_eof /\ f_eof
       /\ Len(wav_data) \div 2 = total_frames(Len(wav_data), wav_channels) * wav_channels)
    => c_out = f_out

(***************************************************************************)
(* input_scanner.c: the state machine of one button                        *)
(***************************************************************************)
\* the scans are followed up to this time (microseconds)
MaxTime == 8
\* longest time between two scans of the button
MaxDt == 2
\* largest press debounce, release debounce and long press thresholds
MaxDebouncePress == 2
MaxDebounceRelease == 1
MaxLongPress == 3

\* init_button_state, for every configuration of the thresholds
button_init ==
    /\ btn_state = "IDLE"
    /\ state_change_time_us = 0
    /\ press_start_time_us = 0
    /\ long_press_triggered = FALSE
    /\ debounce_press_us \in 0 .. MaxDebouncePress
    /\ debounce_release_us \in 0 .. MaxDebounceRelease
    /\ long_press_us \in 0 .. MaxLongPress
    /\ btn_now = 0
    /\ pressed = FALSE
    /\ btn_events = <<>>
    /\ run_start = -1
    /\ run_last = -1
    /\ run_end = -1
    /\ run_from_idle = FALSE
    /\ run_mark = 0

ButtonInit == audio_init /\ read_idle /\ button_init /\ encoder_idle /\ mapper_idle /\ parse_idle
    /\ entry_idle /\ sink_idle /\ volume_idle /\ scale_idle /\ api_idle
    /\ throttle_idle /\ sustain_idle

\* the debounce test with > for >=
debounce_elapsed_strict(now, since, threshold) == (now - since) > threshold

\* (now - btn->state_change_time_us) >= btn->debounce_..._us
debounce_elapsed(now, since, threshold) == (now - since) >= threshold

\* the long press test without the latch
long_press_unlatched(now) == (now - press_start_time_us) >= long_press_us

\* !btn->long_press_triggered && (now - btn->press_start_time_us) >= btn->long_press_us
long_press_due(now) ==
    ~long_press_triggered /\ (now - press_start_time_us) >= long_press_us

fsm_unchanged ==
    UNCHANGED <<btn_state, state_change_time_us, press_start_time_us,
                long_press_triggered, btn_events>>

\* case BUTTON_STATE_IDLE
fsm_idle(level, now) ==
    IF level
    THEN /\ btn_state' = "DEBOUNCE_PRESS"
         /\ state_change_time_us' = now
         /\ UNCHANGED <<press_start_time_us, long_press_triggered, btn_events>>
    ELSE fsm_unchanged

\* case BUTTON_STATE_DEBOUNCE_PRESS
fsm_debounce_press(level, now) ==
    IF ~level
    THEN /\ btn_state' = "IDLE"
         /\ UNCHANGED <<state_change_time_us, press_start_time_us,
                        long_press_triggered, btn_events>>
    ELSE IF debounce_elapsed(now, state_change_time_us, debounce_press_us)
    THEN /\ btn_state' = "PRESSED"
         /\ press_start_time_us' = now
         /\ long_press_triggered' = FALSE
         /\ btn_events' = Append(btn_events, "PRESS")
         /\ UNCHANGED state_change_time_us
    ELSE fsm_unchanged

\* case BUTTON_STATE_PRESSED
fsm_pressed(level, now) ==
    IF ~level
    THEN /\ btn_state' = "DEBOUNCE_RELEASE"
         /\ state_change_time_us' = now
         /\ UNCHANGED <<press_start_time_us, long_press_triggered, btn_events>>
    ELSE IF long_press_due(now)
    THEN /\ long_press_triggered' = TRUE
         /\ btn_events' = Append(btn_events, "LONG_PRESS")
         /\ UNCHANGED <<btn_state, state_change_time_us, press_start_time_us>>
    ELSE fsm_unchanged

\* DEBOUNCE_RELEASE taking the pressed level for a new press
fsm_debounce_release_repress(level, now) ==
    IF level
    THEN /\ btn_state' = "PRESSED"
         /\ press_start_time_us' = now
         /\ long_press_triggered' = FALSE
         /\ btn_events' = Append(btn_events, "PRESS")
         /\ UNCHANGED state_change_time_us
    ELSE IF debounce_elapsed(now, state_change_time_us, debounce_release_us)
    THEN /\ btn_state' = "IDLE"
         /\ btn_events' = Append(btn_events, "RELEASE")
         /\ UNCHANGED <<state_change_time_us, press_start_time_us,
                        long_press_triggered>>
    ELSE fsm_unchanged

\* case BUTTON_STATE_DEBOUNCE_RELEASE
fsm_debounce_release(level, now) ==
    IF level
    THEN /\ btn_state' = "PRESSED"
         /\ UNCHANGED <<state_change_time_us, press_start_time_us,
                        long_press_triggered, btn_events>>
    ELSE IF debounce_elapsed(now, state_change_time_us, debounce_release_us)
    THEN /\ btn_state' = "IDLE"
         /\ btn_events' = Append(btn_events, "RELEASE")
         /\ UNCHANGED <<state_change_time_us, press_start_time_us,
                        long_press_triggered>>
    ELSE fsm_unchanged

\* button_fsm_update(btn, level, now): the FSM fields and the callback
fsm_update(level, now) ==
    CASE btn_state = "IDLE" -> fsm_idle(level, now)
      [] btn_state = "DEBOUNCE_PRESS" -> fsm_debounce_press(level, now)
      [] btn_state = "PRESSED" -> fsm_pressed(level, now)
      [] btn_state = "DEBOUNCE_RELEASE" -> fsm_debounce_release(level, now)

\* scan_row / poll_encoder_switch: the button is sampled at a later time and
\* the FSM is updated with the level read
button_fsm_update ==
    /\ btn_state # "off"
    /\ \E level \in BOOLEAN, dt \in 1 .. MaxDt :
         /\ btn_now + dt <= MaxTime
         /\ btn_now' = btn_now + dt
         /\ pressed' = level
         /\ fsm_update(level, btn_now + dt)
         \* the run of pressed samples this scan belongs to, or ends
         /\ IF level /\ ~pressed
            THEN /\ run_start' = btn_now + dt
                 /\ run_last' = btn_now + dt
                 /\ run_end' = -1
                 /\ run_from_idle' = (btn_state = "IDLE")
                 /\ run_mark' = Len(btn_events)
            ELSE /\ run_last' = IF level THEN btn_now + dt ELSE run_last
                 /\ run_end' = IF ~level /\ pressed THEN btn_now + dt ELSE run_end
                 /\ UNCHANGED <<run_start, run_from_idle, run_mark>>
    /\ UNCHANGED <<debounce_press_us, debounce_release_us, long_press_us,
                   not_button>>

ButtonNext == button_fsm_update

SpecButton == ButtonInit /\ [][ButtonNext]_vars

\* the Press events emitted since the latest run of pressed samples began
run_presses ==
    Cardinality({i \in (run_mark + 1) .. Len(btn_events) : btn_events[i] = "PRESS"})

\* C5: for every press debounce threshold, from IDLE: a pressed level that
\* is sampled released before the threshold has elapsed since its first
\* pressed sample emits no Press; a pressed level that is sampled pressed
\* again at a time >= the threshold after its first pressed sample has
\* emitted exactly one Press.
C5_Debounce ==
    (run_from_idle /\ run_start >= 0) =>
        /\ run_presses <= 1
        /\ (run_last - run_start < debounce_press_us) => run_presses = 0
        /\ (run_end >= 0 /\ run_end - run_start < debounce_press_us)
              => run_presses = 0
        /\ (run_last > run_start /\ run_last - run_start >= debounce_press_us)
              => run_presses = 1

\* after a full Press / Release, a pressed level shorter than a threshold of
\* 2 has ended without a Press
C5_Witness ==
    /\ debounce_press_us = 2
    /\ btn_events = <<"PRESS", "RELEASE">>
    /\ run_from_idle
    /\ run_mark = 2
    /\ run_end >= 0
    /\ run_end - run_start < debounce_press_us

RECURSIVE last_press(_, _)
last_press(ev, i) ==
    IF i = 0 THEN 0 ELSE IF ev[i] = "PRESS" THEN i ELSE last_press(ev, i - 1)

\* the LongPress events emitted since the last Press
long_presses_since_press ==
    Cardinality({i \in (last_press(btn_events, Len(btn_events)) + 1) .. Len(btn_events) :
                    btn_events[i] = "LONG_PRESS"})

C6_LatchStep ==
    (long_press_triggered /\ ~long_press_triggered') =>
        /\ btn_state = "DEBOUNCE_PRESS"
        /\ btn_state' = "PRESSED"
        /\ btn_events' = Append(btn_events, "PRESS")

\* C6: between a Press and the next Release LongPress is emitted at most
\* once, however long the button is held and whatever bounces between
\* DEBOUNCE_RELEASE and PRESSED occur; only a confirmed Press clears the
\* latch.
C6_LongPressLatch == [](long_presses_since_press <= 1) /\ [][C6_LatchStep]_vars

\* the latch is set, the FSM has bounced through DEBOUNCE_RELEASE back to
\* PRESSED, and the button was sampled pressed again past the threshold
C6_Witness ==
    /\ btn_state = "PRESSED"
    /\ long_press_triggered
    /\ long_presses_since_press = 1
    /\ state_change_time_us > press_start_time_us
    /\ run_start > state_change_time_us
    /\ run_last > run_start
    /\ run_last - press_start_time_us >= long_press_us

\* the events are a prefix of (Press [LongPress] Release)*
well_formed(ev) ==
    \A i \in 1 .. Len(ev) :
        IF i = 1 THEN ev[i] = "PRESS"
        ELSE CASE ev[i - 1] = "PRESS" -> ev[i] \in {"LONG_PRESS", "RELEASE"}
               [] ev[i - 1] = "LONG_PRESS" -> ev[i] = "RELEASE"
               [] OTHER -> ev[i] = "PRESS"

C8_GlitchStep ==
    /\ (btn_state = "DEBOUNCE_PRESS" /\ btn_now' # btn_now /\ ~pressed') =>
          btn_state' = "IDLE" /\ btn_events' = btn_events
    /\ (btn_state = "DEBOUNCE_RELEASE" /\ btn_now' # btn_now /\ pressed') =>
          btn_state' = "PRESSED" /\ btn_events' = btn_events

\* C8: for every sequence of sampled levels and times the events of a
\* button are a prefix of (Press [LongPress] Release)*, and a level that
\* reverts during a debounce window takes the FSM back to the settled state
\* it came from (IDLE or PRESSED) with no event.
C8_WellFormed == [](well_formed(btn_events)) /\ [][C8_GlitchStep]_vars

\* a full cycle with a LongPress, a second Press, and a release glitch
\* under way
C8_Witness ==
    /\ btn_events = <<"PRESS", "LONG_PRESS", "RELEASE", "PRESS">>
    /\ btn_state = "DEBOUNCE_RELEASE"

(***************************************************************************)
(* input_scanner.c: the quadrature decoder of the rotary encoder           *)
(***************************************************************************)
\* the polls are followed up to this time (microseconds)
MaxEncTime == 6
\* longest time between two polls
MaxPollDt == 2
\* largest rotation debounce threshold
MaxEncDebounce == 1

ENCODER_STEPS_PER_DETENT == 4

\* transition_table[(prev_state << 2) | new_state]
transition_table ==
    <<0, 1, -1, 0,
      -1, 0, 0, 1,
      1, 0, 0, -1,
      0, -1, 1, 0>>

\* encoder_decode_direction: +1 for CW, -1 for CCW, 0 for invalid / no change
encoder_decode_direction(prev_state, new_state) ==
    transition_table[(prev_state * 4 + new_state) + 1]

\* the state after input_scanner_init, for every level of the two pins
encoder_init ==
    /\ last_clk \in {0, 1}
    /\ last_dt \in {0, 1}
    /\ step_counter = 0
    /\ last_transition_us = 0
    /\ debounce_us \in 0 .. MaxEncDebounce
    /\ enc_now = 0
    /\ enc_events = <<>>
    /\ steps_dir = 0
    /\ steps_len = 0
    /\ steps_from_zero = FALSE
    /\ steps_mark = 0

EncoderInit == audio_init /\ read_idle /\ button_idle /\ encoder_init /\ mapper_idle /\ parse_idle
    /\ entry_idle /\ sink_idle /\ volume_idle /\ scale_idle /\ api_idle
    /\ throttle_idle /\ sustain_idle

\* poll_encoder_quadrature at a later time, for every level of the two pins
poll_encoder_quadrature ==
    /\ last_clk >= 0
    /\ \E clk \in {0, 1}, dt \in {0, 1}, elapsed \in 1 .. MaxPollDt :
         LET now == enc_now + elapsed
             prev_state == last_clk * 2 + last_dt
             new_state == clk * 2 + dt
             direction == encoder_decode_direction(prev_state, new_state)
             accepted == /\ (clk # last_clk \/ dt # last_dt)
                         /\ direction # 0
                         /\ (now - last_transition_us) >= debounce_us
             counter == step_counter + direction
         IN /\ now <= MaxEncTime
            /\ enc_now' = now
            /\ IF accepted
               THEN /\ last_transition_us' = now
                    /\ IF counter >= ENCODER_STEPS_PER_DETENT
                       THEN /\ enc_events' = Append(enc_events, "ROTATE_CCW")
                            /\ step_counter' = 0
                       ELSE IF counter <= -ENCODER_STEPS_PER_DETENT
                       THEN /\ enc_events' = Append(enc_events, "ROTATE_CW")
                            /\ step_counter' = 0
                       ELSE /\ step_counter' = counter
                            /\ UNCHANGED enc_events
                    \* the run of same-direction steps goes on or begins
                    /\ IF steps_dir = direction /\ steps_len \in 1 .. 3
                       THEN /\ steps_len' = steps_len + 1
                            /\ UNCHANGED <<steps_dir, steps_from_zero, steps_mark>>
                       ELSE /\ steps_dir' = direction
                            /\ steps_len' = 1
                            /\ steps_from_zero' = (step_counter = 0)
                            /\ steps_mark' = Len(enc_events)
               ELSE /\ UNCHANGED <<last_transition_us, step_counter, enc_events>>
                    \* a valid transition that comes too early ends the run
                    /\ IF direction # 0 /\ (clk # last_clk \/ dt # last_dt)
                       THEN /\ steps_dir' = 0
                            /\ steps_len' = 0
                            /\ UNCHANGED <<steps_from_zero, steps_mark>>
                       ELSE UNCHANGED <<steps_dir, steps_len, steps_from_zero, steps_mark>>
            /\ last_clk' = clk
            /\ last_dt' = dt
    /\ UNCHANGED <<debounce_us, not_encoder>>

EncoderNext == poll_encoder_quadrature

SpecEncoder == EncoderInit /\ [][EncoderNext]_vars

\* the rotation events emitted since the run of steps began
steps_events == Len(enc_events) - steps_mark

\* four accepted steps in one direction, from a zero accumulator, give one
\* event, and fewer give none
C7_DetentCount ==
    (steps_from_zero /\ steps_len >= 1) =>
        /\ steps_len < 4 => steps_events = 0
        /\ steps_len = 4 => steps_events = 1

\* a poll that decodes no step leaves the accumulator and the events alone
C7_NoStep ==
    (enc_now' # enc_now
       /\ encoder_decode_direction(last_clk * 2 + last_dt, last_clk' * 2 + last_dt') = 0)
    => step_counter' = step_counter /\ enc_events' = enc_events

C7_Accumulator == [][C7_NoStep]_vars

\* C7: four valid quadrature transitions in one direction, each at least
\* the debounce interval after the previous one, yield exactly one rotation
\* event, and the event has the direction the Gray-code table decodes for
\* the steps: RotateCW for the +1 steps of 00->01->11->10->00, RotateCCW
\* for the -1 steps.
C7_DetentIntegrity ==
    /\ C7_DetentCount
    /\ (steps_from_zero /\ steps_len = 4) =>
          enc_events[Len(enc_events)] =
              (IF steps_dir = 1 THEN "ROTATE_CW" ELSE "ROTATE_CCW")

\* ---------------------------------------------------------------------
\* The mapper: the page ring and the mapping lists (mapper.c)

\* lines a load takes from its sources, all sources together
MaxLines == 2

NewPage(page_id, n) == [page_id |-> page_id, page_number |-> n, mappings |-> <<>>]

has_page(pg, page_id) == \E i \in 1..Len(pg) : pg[i].page_id = page_id

page_index(pg, page_id) == CHOOSE i \in 1..Len(pg) : pg[i].page_id = page_id

\* a ring whose new pages are linked in at the end
find_or_append_page(pg, cur, count, page_id, alloc) ==
    IF cur = NULL
    THEN IF alloc THEN <<NewPage(page_id, 1)>> ELSE pg
    ELSE IF has_page(pg, page_id) THEN pg
    ELSE IF ~alloc THEN pg
    ELSE Append(pg, NewPage(page_id, count + 1))

\* the ring after find_or_create_page: the first page stands alone, a later
\* one is linked in after the current page; alloc: calloc gave a node
find_or_create_page(pg, cur, count, page_id, alloc) ==
    IF cur = NULL
    THEN IF alloc THEN <<NewPage(page_id, 1)>> ELSE pg
    ELSE IF has_page(pg, page_id) THEN pg
    ELSE IF ~alloc THEN pg
    ELSE LET i == page_index(pg, cur)
         IN  SubSeq(pg, 1, i) \o <<NewPage(page_id, count + 1)>>
                 \o SubSeq(pg, i + 1, Len(pg))

RECURSIVE mapping_from(_, _, _, _)
\* the first node at or after i with this button and event, 0: none
mapping_from(ms, i, button_number, event) ==
    IF i > Len(ms) THEN 0
    ELSE IF ms[i].button_number = button_number /\ ms[i].event = event THEN i
    ELSE mapping_from(ms, i + 1, button_number, event)

NewMapping(button_number, event, action) ==
    [button_number |-> button_number, event |-> event, action |-> action]

\* the list after insert_mapping: a node with the same button and event is
\* overwritten, otherwise a new node goes to the head
insert_mapping(ms, button_number, event, action) ==
    LET i == mapping_from(ms, 1, button_number, event)
    IN  IF i > 0 THEN [ms EXCEPT ![i].action = action]
        ELSE <<NewMapping(button_number, event, action)>> \o ms

\* the action of the node find_mapping returns, NoAction for NULL
find_mapping(pg, cur, button_number, event) ==
    IF cur = NULL THEN NoAction
    ELSE LET ms == pg[page_index(pg, cur)].mappings
             i == mapping_from(ms, 1, button_number, event)
         IN  IF i = 0 THEN NoAction ELSE ms[i].action

find_page_by_number(pg, count, page_number) ==
    IF pg = <<>> \/ page_number = 0 \/ page_number > count THEN NULL
    ELSE IF \E i \in 1..Len(pg) : pg[i].page_number = page_number
         THEN pg[CHOOSE i \in 1..Len(pg) : pg[i].page_number = page_number].page_id
         ELSE NULL

\* ---- parsing a line

parse_event_type(str) ==
    CASE str = "press" -> "BUTTON_PRESS"
      [] str = "long_press" -> "BUTTON_LONG_PRESS"
      [] str = "release" -> "BUTTON_RELEASE"
      [] OTHER -> "INVALID"

action_specs ==
    <<[type |-> "STOP", name |-> "stop", min_params |-> 0, max_params |-> 0],
      [type |-> "PLAY", name |-> "play", min_params |-> 1, max_params |-> 1],
      [type |-> "PLAY_CUT", name |-> "play_cut", min_params |-> 1, max_params |-> 1],
      [type |-> "PLAY_LOCK", name |-> "play_lock", min_params |-> 1, max_params |-> 1]>>

\* index of the specification with this name, 0 for NULL
find_action_spec(name) ==
    IF \E i \in 1..Len(action_specs) : action_specs[i].name = name
    THEN CHOOSE i \in 1..Len(action_specs) : action_specs[i].name = name
    ELSE 0

action_has_file(type) == type \in {"PLAY", "PLAY_CUT", "PLAY_LOCK"}

build_absolute_path(root, filename) == root \o "/" \o filename

\* a parse_action that takes max_params as a limit
parse_action_exact(name, params, root) ==
    LET i == find_action_spec(name)
    IN  IF i = 0 THEN [ok |-> FALSE, action |-> NoAction]
        ELSE IF Len(params) < action_specs[i].min_params
                \/ Len(params) > action_specs[i].max_params
        THEN [ok |-> FALSE, action |-> NoAction]
        ELSE [ok |-> TRUE,
              action |-> [type |-> action_specs[i].type,
                          filename |-> IF action_has_file(action_specs[i].type)
                                       THEN build_absolute_path(root, params[1])
                                       ELSE NULL]]

\* parse_action on the action name and the tokens after it: too few
\* parameters fail, extra ones are logged and ignored
parse_action(name, params, root) ==
    LET i == find_action_spec(name)
    IN  IF i = 0 THEN [ok |-> FALSE, action |-> NoAction]
        ELSE IF Len(params) < action_specs[i].min_params
        THEN [ok |-> FALSE, action |-> NoAction]
        ELSE [ok |-> TRUE,
              action |-> [type |-> action_specs[i].type,
                          filename |-> IF action_has_file(action_specs[i].type)
                                       THEN build_absolute_path(root, params[1])
                                       ELSE NULL]]

validate_line(line, root) ==
    IF line.kind # "fields" THEN Invalid
    ELSE IF Len(line.page) = 0 \/ Len(line.page) >= PAGE_ID_MAX_LEN THEN Invalid
    ELSE IF line.button < 1 \/ line.button > 12 THEN Invalid
    ELSE IF parse_event_type(line.event) = "INVALID" THEN Invalid
    ELSE LET a == parse_action(line.action, line.params, root)
         IN  IF ~a.ok THEN Invalid
             ELSE [ok |-> TRUE, page_id |-> line.page, button_number |-> line.button,
                   event |-> parse_event_type(line.event), action |-> a.action]

\* parse_and_insert_mapping: its return value and the ring it leaves;
\* alloc: "ok", or the calloc that fails
parse_and_insert_mapping(pg, cur, count, line, root, alloc) ==
    LET parsed == validate_line(line, root)
        same == [ret |-> "INVALID_ARG", pages |-> pg, current_page |-> cur,
                 page_count |-> count, parsed |-> parsed]
    IN  IF ~parsed.ok THEN same
        ELSE LET pg1 == find_or_create_page(pg, cur, count, parsed.page_id,
                                            alloc # "no_page")
             IN  IF ~has_page(pg1, parsed.page_id)
                 THEN [same EXCEPT !.ret = "NO_MEM"]
                 ELSE LET created == Len(pg1) > Len(pg)
                          cur1 == IF cur = NULL THEN parsed.page_id ELSE cur
                          count1 == IF cur = NULL THEN 1
                                    ELSE IF created THEN count + 1 ELSE count
                          i == page_index(pg1, parsed.page_id)
                          fresh == mapping_from(pg1[i].mappings, 1,
                                                parsed.button_number, parsed.event) = 0
                      IN  IF fresh /\ alloc = "no_mapping"
                          THEN [ret |-> "NO_MEM", pages |-> pg1, current_page |-> cur1,
                                page_count |-> count1, parsed |-> parsed]
                          ELSE [ret |-> "OK",
                                pages |-> [pg1 EXCEPT ![i].mappings =
                                    insert_mapping(pg1[i].mappings, parsed.button_number,
                                                   parsed.event, parsed.action)],
                                current_page |-> cur1, page_count |-> count1,
                                parsed |-> parsed]

\* ---- what the mapper asks of the player and tells its observer

Call(c, a) == [call |-> c, arg |-> a]

RECURSIVE entry_from(_, _, _)
\* the first entry at or after i with this filename, 0: none
entry_from(entries, i, filename) ==
    IF i > Len(entries) THEN 0
    ELSE IF entries[i].filename = filename THEN i
    ELSE entry_from(entries, i + 1, filename)

RECURSIVE collect_files(_, _, _)
\* the unique filenames of the list from node i on, each with the highest
\* button that plays it
collect_files(ms, i, entries) ==
    IF i > Len(ms) THEN entries
    ELSE IF ~action_has_file(ms[i].action.type) THEN collect_files(ms, i + 1, entries)
    ELSE LET j == entry_from(entries, 1, ms[i].action.filename)
         IN  IF j > 0
             THEN collect_files(ms, i + 1,
                      IF ms[i].button_number > entries[j].button_number
                      THEN [entries EXCEPT ![j].button_number = ms[i].button_number]
                      ELSE entries)
             ELSE IF Len(entries) < 12
             THEN collect_files(ms, i + 1,
                      Append(entries, [filename |-> ms[i].action.filename,
                                       button_number |-> ms[i].button_number]))
             ELSE collect_files(ms, i + 1, entries)

RECURSIVE bubble_pass(_, _, _)
\* one pass of the inner loop over positions j .. last
bubble_pass(entries, j, last) ==
    IF j > last THEN entries
    ELSE IF entries[j].button_number < entries[j + 1].button_number
    THEN bubble_pass([entries EXCEPT ![j] = entries[j + 1], ![j + 1] = entries[j]],
                     j + 1, last)
    ELSE bubble_pass(entries, j + 1, last)

RECURSIVE bubble_sort(_, _)
\* passes i .. entry_count - 1 of the outer loop (i counted from 1)
bubble_sort(entries, i) ==
    IF i > Len(entries) - 1 THEN entries
    ELSE bubble_sort(bubble_pass(entries, 1, Len(entries) - i), i + 1)

\* the calls of preload_current_page_files
preload_current_page_files(pg, cur) ==
    IF cur = NULL THEN <<>>
    ELSE LET entries == bubble_sort(
                 collect_files(pg[page_index(pg, cur)].mappings, 1, <<>>), 1)
         IN  IF entries = <<>> THEN <<>>
             ELSE <<Call("player_flush_preload", NULL)>>
                  \o [k \in 1..Len(entries) |->
                         Call("player_preload", entries[k].filename)]

\* ---- mapper_init and the load

\* the lines a source can hold: a line that fits the buffer comes back from
\* one fgets; of a longer one fgets returns the first LINE_BUF - 1 characters
\* and the next call the rest (here: long lines are comments)
PhysLines ==
    {[head |-> c, len |-> LINE_BUF - 2, tail |-> NoTail] :
        c \in {Blank, Comment, Short} \cup FieldLines}
    \cup {[head |-> Comment, len |-> LINE_BUF - 1, tail |-> NoTail]}
    \cup {[head |-> Comment, len |-> LINE_BUF, tail |-> c] :
        c \in {Blank, Comment, Short} \cup FieldLines}

\* what a line of len characters and a line end leaves for the next fgets
rest_of(line) ==
    IF line.len + 1 <= LINE_BUF - 1 THEN NoTail
    ELSE IF line.len = LINE_BUF - 1 THEN Blank
    ELSE line.tail

mapper_start ==
    /\ mpc = "init"
    /\ source_cfg \in {"null", "missing", "present"} \X {"null", "missing", "present"}
    /\ src = 1
    /\ any_loaded = FALSE
    /\ pending = NoTail
    /\ reads = 0
    /\ pages = <<>>
    /\ current_page = NULL
    /\ page_count = 0
    /\ encoder_mode = "VOLUME"
    /\ button_fsm_state = "INITIAL"
    /\ current_button = 0
    /\ current_filename = NULL
    /\ handle = FALSE
    /\ init_ret = NULL
    /\ mapper_out = <<>>
    /\ last_line = [k \in Keys |-> NoAction]
    /\ line_kind = "none"
    /\ abort_kind = "none"
    /\ evt = NoEvent
    /\ ev_page = NULL
    /\ ev_mode = "VOLUME"
    /\ ev_button = 0
    /\ executed = NoAction
    /\ cycle = 0

MapInit == audio_init /\ read_idle /\ button_idle /\ encoder_idle /\ mapper_start /\ parse_idle
    /\ entry_idle /\ sink_idle /\ volume_idle /\ scale_idle /\ api_idle
    /\ throttle_idle /\ sustain_idle

\* mapper_init returns ret: the mapper is freed, no handle is stored
init_failed(ret) ==
    /\ mpc' = "failed"
    /\ init_ret' = ret
    /\ UNCHANGED <<handle, mapper_out, src, any_loaded>>

\* mapper_init up to the call of load_all_mappings
mapper_init ==
    /\ mpc = "init"
    /\ IF source_cfg[1] = "null" /\ source_cfg[2] = "null"
       THEN init_failed("INVALID_ARG")
       ELSE \E alloc \in BOOLEAN :
               IF ~alloc THEN init_failed("NO_MEM")
               ELSE /\ mpc' = "open"
                    /\ UNCHANGED <<handle, init_ret, mapper_out, src, any_loaded>>
    /\ UNCHANGED <<pages, current_page, page_count, source_cfg, pending, reads,
                   last_line, line_kind, abort_kind, event_vars, not_mapper>>

\* load_mappings_from_file has returned ret for the source src: the rest of
\* load_all_mappings and, after the second source, of mapper_init
file_done(ret, pg, cur) ==
    IF ret \notin {"OK", "NOT_FOUND"} THEN init_failed(ret)
    ELSE IF src = 1
    THEN /\ mpc' = "open"
         /\ src' = 2
         /\ any_loaded' = (ret = "OK")
         /\ UNCHANGED <<handle, init_ret, mapper_out>>
    ELSE IF ~(any_loaded \/ ret = "OK") THEN init_failed("NOT_FOUND")
    ELSE /\ mpc' = "ready"
         /\ any_loaded' = TRUE
         /\ handle' = TRUE
         /\ init_ret' = "OK"
         /\ mapper_out' = <<Call("notify_loaded", cur)>>
                              \o preload_current_page_files(pg, cur)
         /\ UNCHANGED src

\* load_mappings_from_file up to the first fgets
load_mappings_from_file ==
    /\ mpc = "open"
    /\ IF source_cfg[src] # "present"
       THEN file_done("NOT_FOUND", pages, current_page)
       ELSE /\ mpc' = "read"
            /\ UNCHANGED <<handle, init_ret, mapper_out, src, any_loaded>>
    /\ UNCHANGED <<pages, current_page, page_count, source_cfg, pending, reads,
                   last_line, line_kind, abort_kind, event_vars, not_mapper>>

\* fgets returns NULL: the file is closed and the load of this source is OK
load_eof ==
    /\ mpc = "read"
    /\ pending = NoTail
    /\ file_done("OK", pages, current_page)
    /\ line_kind' = "none"
    /\ UNCHANGED <<pages, current_page, page_count, source_cfg, pending, reads,
                   last_line, abort_kind, event_vars, not_mapper>>

\* one turn of the loop on what fgets returned: text, of a line of kind k
load_text(text, rest, k, alloc) ==
    /\ pending' = rest
    /\ line_kind' = k
    /\ IF text.kind \in {"blank", "comment"}
       THEN UNCHANGED <<mpc, pages, current_page, page_count, last_line, abort_kind,
                        handle, init_ret, mapper_out, src, any_loaded>>
       ELSE LET r == parse_and_insert_mapping(pages, current_page, page_count,
                                              text, Roots[src], alloc)
            IN  /\ pages' = r.pages
                /\ current_page' = r.current_page
                /\ page_count' = r.page_count
                /\ IF r.ret = "OK"
                   THEN /\ last_line' =
                              [last_line EXCEPT ![<<r.parsed.page_id,
                                                    r.parsed.button_number,
                                                    r.parsed.event>>] = r.parsed.action]
                        /\ UNCHANGED <<mpc, abort_kind, handle, init_ret, mapper_out,
                                       src, any_loaded>>
                   ELSE /\ abort_kind' = k
                        /\ init_failed(r.ret)
                        /\ UNCHANGED last_line

\* fgets returns a line, or the first LINE_BUF - 1 characters of one
load_line ==
    /\ mpc = "read"
    /\ pending = NoTail
    /\ reads < MaxLines
    /\ reads' = reads + 1
    /\ \E line \in PhysLines, alloc \in {"ok", "no_page", "no_mapping"} :
          load_text(line.head, rest_of(line), line.head.kind, alloc)
    /\ UNCHANGED <<source_cfg, event_vars, not_mapper>>

\* fgets returns the rest of a line that did not fit
load_rest ==
    /\ mpc = "read"
    /\ pending # NoTail
    /\ \E alloc \in {"ok", "no_page", "no_mapping"} :
          load_text(pending, NoTail, line_kind, alloc)
    /\ UNCHANGED <<reads, source_cfg, event_vars, not_mapper>>

\* ---- mapper_handle_event

\* the actions that start playback
PlayFamily == {"PLAY", "PLAY_CUT", "PLAY_LOCK"}

\* the events the input scanner delivers
ButtonEvents == {"BUTTON_PRESS", "BUTTON_LONG_PRESS", "BUTTON_RELEASE"}
InputEvents ==
    {[button |-> b, event |-> e] : b \in {0, 1, 2}, e \in ButtonEvents}
    \cup {[button |-> 0, event |-> e] : e \in {"ENCODER_ROTATE_CW", "ENCODER_ROTATE_CCW"}}

\* the mapper's fields a handler can change, with the calls it made and
\* the action it executed
mapper_state ==
    [mode |-> encoder_mode, page |-> current_page, fsm |-> button_fsm_state,
     button |-> current_button, file |-> current_filename, out |-> <<>>,
     exec |-> NoAction]

\* the page after (d = 1) or before (d = -1) the current one in the ring
ring_step(pg, cur, d) ==
    LET i == page_index(pg, cur)
    IN  pg[((i - 1 + d + Len(pg)) % Len(pg)) + 1].page_id

\* an encoder rotation: the volume in VOLUME mode, the page in PAGE mode
encoder_rotate(st, d) ==
    IF st.mode = "VOLUME"
    THEN [st EXCEPT !.out = <<Call("player_volume_adjust", IF d = 1 THEN "+1" ELSE "-1")>>]
    ELSE IF st.page # NULL /\ page_count > 1
    THEN LET np == ring_step(pages, st.page, d)
         IN  [st EXCEPT !.page = np,
                        !.out = <<Call("notify_page_changed", np)>>
                                    \o preload_current_page_files(pages, np)]
    ELSE st

\* the encoder switch: a press toggles the mode
encoder_switch(st, event) ==
    IF event = "BUTTON_PRESS"
    THEN LET m == IF st.mode = "VOLUME" THEN "PAGE" ELSE "VOLUME"
         IN  [st EXCEPT !.mode = m, !.out = <<Call("notify_encoder_mode_changed", m)>>]
    ELSE st

\* a release that stops playback from every state of the button FSM
button_release_stop(st, button_number) ==
    IF st.button # button_number THEN st
    ELSE [st EXCEPT !.fsm = "INITIAL", !.out = <<Call("player_stop", "true")>>]

\* a release that acts on the latch whichever button is released
button_release_any(st, button_number) ==
    IF st.fsm \in {"PLAY_CUT", "PLAY_LOCK_PENDING"}
    THEN [st EXCEPT !.fsm = "INITIAL", !.out = <<Call("player_stop", "true")>>]
    ELSE IF st.fsm \in {"PLAY_ONCE", "PLAY_LOCKED"}
    THEN [st EXCEPT !.fsm = "INITIAL"]
    ELSE st

\* a release of a matrix button: the button FSM, never a lookup
button_release(st, button_number) ==
    IF st.button # button_number THEN st
    ELSE IF st.fsm \in {"PLAY_CUT", "PLAY_LOCK_PENDING"}
    THEN [st EXCEPT !.fsm = "INITIAL", !.out = <<Call("player_stop", "true")>>]
    ELSE IF st.fsm \in {"PLAY_ONCE", "PLAY_LOCKED"}
    THEN [st EXCEPT !.fsm = "INITIAL"]
    ELSE st

\* a page selection that leaves the encoder in PAGE mode
page_select_keep_mode(st, button_number) ==
    LET target == find_page_by_number(pages, page_count, button_number)
    IN  IF target = NULL THEN st
        ELSE [st EXCEPT !.page = target,
                        !.out = <<Call("notify_page_changed", target)>>
                                    \o preload_current_page_files(pages, target)]

\* a press in PAGE mode selects the page with the button's number
page_select(st, button_number) ==
    LET target == find_page_by_number(pages, page_count, button_number)
    IN  IF target = NULL THEN st
        ELSE [st EXCEPT !.page = target, !.mode = "VOLUME",
                        !.out = <<Call("notify_encoder_mode_changed", "VOLUME"),
                                  Call("notify_page_changed", target)>>
                                    \o preload_current_page_files(pages, target)]

execute_action(st, button_number, action) ==
    LET done == <<Call("notify_action_executed", action.type)>>
    IN  CASE action.type = "STOP" ->
                [st EXCEPT !.fsm = "INITIAL", !.button = 0, !.exec = action,
                           !.out = <<Call("player_stop", "true")>> \o done]
          [] action.type = "PLAY" ->
                [st EXCEPT !.fsm = "PLAY_ONCE", !.button = button_number,
                           !.file = action.filename, !.exec = action,
                           !.out = <<Call("player_play", action.filename)>> \o done]
          [] action.type = "PLAY_CUT" ->
                [st EXCEPT !.fsm = "PLAY_CUT", !.button = button_number,
                           !.file = action.filename, !.exec = action,
                           !.out = <<Call("player_play", action.filename)>> \o done]
          [] action.type = "PLAY_LOCK" ->
                [st EXCEPT !.fsm = "PLAY_LOCK_PENDING", !.button = button_number,
                           !.file = action.filename, !.exec = action,
                           !.out = <<Call("player_play", action.filename)>> \o done]
          [] OTHER -> [st EXCEPT !.out = done]

\* the dispatch of mapper_handle_event, top down
handle_event(st, button_number, event) ==
    IF event = "ENCODER_ROTATE_CW" THEN encoder_rotate(st, 1)
    ELSE IF event = "ENCODER_ROTATE_CCW" THEN encoder_rotate(st, -1)
    ELSE IF button_number = 0 THEN encoder_switch(st, event)
    ELSE IF event = "BUTTON_RELEASE" /\ button_number >= 1 /\ button_number <= 12
    THEN button_release(st, button_number)
    ELSE IF st.mode = "PAGE" /\ event = "BUTTON_PRESS"
            /\ button_number >= 1 /\ button_number <= 12
    THEN page_select(st, button_number)
    ELSE IF event = "BUTTON_LONG_PRESS" /\ button_number >= 1 /\ button_number <= 12
            /\ st.button = button_number /\ st.fsm = "PLAY_LOCK_PENDING"
    THEN [st EXCEPT !.fsm = "PLAY_LOCKED"]
    ELSE LET action == find_mapping(pages, st.page, button_number, event)
         IN  IF action # NoAction THEN execute_action(st, button_number, action)
             ELSE st

\* the place in the cycle after event e, handled with result st
lock_cycle(e, st) ==
    LET latched == e.button >= 1 /\ e.button = current_button
    IN  IF e.event = "BUTTON_PRESS" /\ st.exec.type = "PLAY_LOCK"
        THEN IF cycle = 3 /\ latched THEN 4 ELSE 1
        ELSE IF e.event = "BUTTON_LONG_PRESS" /\ latched /\ cycle = 1 THEN 2
        ELSE IF e.event = "BUTTON_RELEASE" /\ latched /\ cycle = 2 THEN 3
        ELSE IF e.event = "BUTTON_RELEASE" /\ latched /\ cycle = 4 THEN 5
        ELSE 0

\* the held button after event e, handled with result st
sustain(e, st) ==
    IF st.exec.type \in PlayFamily /\ current_button >= 1
           /\ current_button # e.button
           /\ button_fsm_state \in {"PLAY_CUT", "PLAY_LOCK_PENDING"}
    THEN current_button
    ELSE IF st.button = sustained
            \/ (e.event = "BUTTON_PRESS" /\ e.button = sustained) THEN 0
    ELSE sustained

\* mapper_handle_event called with the event e
handled(e) ==
    /\ mpc = "ready"
    /\ LET st == handle_event(mapper_state, e.button, e.event)
       IN  /\ encoder_mode' = st.mode
           /\ current_page' = st.page
           /\ button_fsm_state' = st.fsm
           /\ current_button' = st.button
           /\ current_filename' = st.file
           /\ mapper_out' = st.out
           /\ executed' = st.exec
           /\ evt' = e
           /\ cycle' = lock_cycle(e, st)
    /\ ev_page' = current_page
    /\ ev_mode' = encoder_mode
    /\ ev_button' = current_button
    /\ UNCHANGED <<mpc, pages, page_count, handle, init_ret, load_vars>>

mapper_handle_event ==
    /\ \E e \in InputEvents : handled(e)
    /\ UNCHANGED not_mapper

MapNext ==
    \/ mapper_init
    \/ load_mappings_from_file
    \/ load_line
    \/ load_rest
    \/ load_eof
    \/ mapper_handle_event

SpecMap == MapInit /\ [][MapNext]_vars

\* ---- the mapping table after a load

\* the nodes of page p with this button and event
nodes(pg, p, button_number, event) ==
    IF ~has_page(pg, p) THEN {}
    ELSE LET ms == pg[page_index(pg, p)].mappings
         IN  {i \in 1..Len(ms) :
                 ms[i].button_number = button_number /\ ms[i].event = event}

\* the action the sources give a key: that of the last line with the key
bound(k) == IF k \in Keys THEN last_line[k] ELSE NoAction

\* no key has two nodes on its page, at any point of the load and after it
C9_Unique ==
    \A k \in Keys : Cardinality(nodes(pages, k[1], k[2], k[3])) <= 1

\* the node of a key holds the action of the last line with that key
C9_LastWins ==
    mpc \in {"open", "read", "ready"} =>
        \A k \in Keys :
            IF last_line[k] = NoAction THEN nodes(pages, k[1], k[2], k[3]) = {}
            ELSE find_mapping(pages, k[1], k[2], k[3]) = last_line[k]

\* a press or long press that reaches the lookup executes the action the
\* sources give its key, or nothing when they give none
C9_PressExecutes ==
    (mpc = "ready" /\ evt.button >= 1 /\ ev_mode = "VOLUME"
       /\ evt.event \in {"BUTTON_PRESS", "BUTTON_LONG_PRESS"}
       /\ ~(evt.event = "BUTTON_LONG_PRESS" /\ ev_button = evt.button))
    => executed = bound(<<ev_page, evt.button, evt.event>>)

\* an event on a bound key of the current page, on a button that is not the
\* latched one and outside the page selection, executes the key's action
C9_EventExecutes ==
    (mpc = "ready" /\ evt.button >= 1 /\ ev_mode = "VOLUME"
       /\ ev_button # evt.button
       /\ bound(<<ev_page, evt.button, evt.event>>) # NoAction)
    => executed = bound(<<ev_page, evt.button, evt.event>>)

\* C9: after the sources are loaded in order every (page, button, event)
\* key has at most one mapping on its page, the mapping holds the action of
\* the last line with that key over all sources, and an event on the key
\* executes that action.
C9_Override == C9_Unique /\ C9_LastWins /\ C9_EventExecutes

\* a key bound twice, by a line of each source, and the press that runs it
C9_Remapped ==
    /\ mpc = "ready"
    /\ evt = [button |-> 1, event |-> "BUTTON_PRESS"]
    /\ ev_page = "p1"
    /\ reads = 2
    /\ Len(pages) = 1
    /\ Len(pages[1].mappings) = 1
    /\ source_cfg = <<"present", "present">>
    /\ executed = [type |-> "STOP", filename |-> NULL]
    /\ mapper_out[1] = Call("player_stop", "true")

\* ---- a load that fails

\* a failed mapper_init leaves no handle and an error code
C10_NoHandle ==
    /\ mpc = "failed" => (~handle /\ init_ret \notin {NULL, "OK"})
    /\ mpc = "ready" => (handle /\ init_ret = "OK" /\ abort_kind = "none")

\* nothing is read or applied after the failure
C10_Stops == [][mpc # "failed"]_vars

\* the load aborts only at lines that carry fields
C10_SkippedLines == abort_kind \notin {"blank", "comment"}

\* C10: a line that is neither blank nor a comment and fails validation
\* aborts the whole load at that line, mapper_init returns an error and
\* yields no handle; blank lines and comment lines are skipped and never
\* cause a failure.
C10_FailFast == C10_NoHandle /\ C10_SkippedLines

\* a comment longer than the line buffer, its rest read as a line of fewer
\* than four fields
C10_LongComment ==
    /\ mpc = "failed"
    /\ abort_kind = "comment"
    /\ init_ret = "INVALID_ARG"
    /\ reads = 1
    /\ pages = <<>>

\* ---------------------------------------------------------------------
\* validate_line on single lines (mapper.c)

\* parameters after the action name
MaxParams == 3

PageTokens == {"p1", "p2", "", LongPageId}
ButtonTokens == {0, 1, 12, 13}
EventTokens == {"press", "long_press", "release", "hold"}
ActionTokens == {"stop", "play", "play_cut", "play_lock", "jump"}
FileTokens == {"x.wav", "y.wav"}

RECURSIVE ParamTokens(_)
\* the parameter lists of n tokens
ParamTokens(n) ==
    IF n = 0 THEN {<<>>}
    ELSE {Append(ps, f) : ps \in ParamTokens(n - 1), f \in FileTokens}

ParseLines ==
    {Short} \cup
    {Fields(p, b, e, a, ps) :
        p \in PageTokens, b \in ButtonTokens, e \in EventTokens, a \in ActionTokens,
        ps \in UNION {ParamTokens(n) : n \in 0..MaxParams}}

parse_init ==
    /\ vpc = "line"
    /\ v_line \in ParseLines
    /\ v_root \in {Roots[1], Roots[2]}
    /\ v_parsed = Invalid

ParseInit ==
    audio_init /\ read_idle /\ button_idle /\ encoder_idle /\ mapper_idle /\ parse_init
    /\ entry_idle /\ sink_idle /\ volume_idle /\ scale_idle /\ api_idle
    /\ throttle_idle /\ sustain_idle

validate ==
    /\ vpc = "line"
    /\ vpc' = "done"
    /\ v_parsed' = validate_line(v_line, v_root)
    /\ UNCHANGED <<v_line, v_root, not_parse>>

ParseNext == validate

SpecParse == ParseInit /\ [][ParseNext]_vars

\* the number of parameters an action requires
required(a) == IF a = "stop" THEN 0 ELSE 1

\* page, button, event and action name of the line are valid
well_keyed(line) ==
    /\ line.kind = "fields"
    /\ line.page \in {"p1", "p2"}
    /\ line.button \in 1..12
    /\ line.event \in {"press", "long_press", "release"}
    /\ line.action \in {"stop", "play", "play_cut", "play_lock"}

\* C11 as the code has it: a line is accepted exactly if its action has at
\* least the parameters it requires, one filename for play, play_cut and
\* play_lock and none for stop; a line with fewer is rejected, parameters
\* beyond the required ones are ignored: the action plays the first one.
C11_Arity ==
    (vpc = "done" /\ well_keyed(v_line)) =>
        /\ v_parsed.ok <=> Len(v_line.params) >= required(v_line.action)
        /\ v_parsed.ok =>
              v_parsed.action.filename =
                  IF required(v_line.action) = 0 THEN NULL
                  ELSE build_absolute_path(v_root, v_line.params[1])

\* a play line with two parameters has been accepted
C11_Witness ==
    /\ vpc = "done"
    /\ v_line.action = "play"
    /\ Len(v_line.params) = 2
    /\ v_parsed.ok
    /\ v_parsed.action = [type |-> "PLAY",
                          filename |-> build_absolute_path(v_root, v_line.params[1])]

\* C11: a mapping line is accepted only if its action has exactly the
\* number of parameters the action requires; a line with fewer or with
\* more parameters is rejected.
C11_ExactArity ==
    (vpc = "done" /\ v_parsed.ok) =>
        Len(v_line.params) = required(v_line.action)

\* ---------------------------------------------------------------------
\* The button action FSM of the mapper

stops(out) == \E i \in 1..Len(out) : out[i] = Call("player_stop", "true")

\* the event of this step is on the button latched before it
on_latched == evt'.button >= 1 /\ evt'.button = current_button

\* what one handled event does to the FSM
C12_Step ==
    mpc = "ready" =>
        /\ executed'.type = "STOP" =>
              button_fsm_state' = "INITIAL" /\ current_button' = 0
        /\ executed'.type = "PLAY" =>
              button_fsm_state' = "PLAY_ONCE" /\ current_button' = evt'.button
        /\ executed'.type = "PLAY_CUT" =>
              button_fsm_state' = "PLAY_CUT" /\ current_button' = evt'.button
        /\ executed'.type = "PLAY_LOCK" =>
              button_fsm_state' = "PLAY_LOCK_PENDING" /\ current_button' = evt'.button
        /\ (evt'.event = "BUTTON_LONG_PRESS" /\ on_latched
              /\ button_fsm_state = "PLAY_LOCK_PENDING") =>
              /\ button_fsm_state' = "PLAY_LOCKED"
              /\ executed' = NoAction
              /\ mapper_out' = <<>>
        /\ (evt'.event = "BUTTON_RELEASE" /\ on_latched) =>
              /\ button_fsm_state' = "INITIAL"
              /\ executed' = NoAction
              /\ stops(mapper_out') <=>
                    button_fsm_state \in {"PLAY_CUT", "PLAY_LOCK_PENDING"}

\* the states along press, long press, release, press, release of a
\* play_lock button
C12_Cycle ==
    /\ cycle = 1 => button_fsm_state = "PLAY_LOCK_PENDING"
    /\ cycle = 2 => button_fsm_state = "PLAY_LOCKED"
    /\ cycle = 3 => button_fsm_state = "INITIAL" /\ ~stops(mapper_out)
    /\ cycle = 4 => button_fsm_state = "PLAY_LOCK_PENDING"
    /\ cycle = 5 => button_fsm_state = "INITIAL" /\ stops(mapper_out)

\* C12: executing Stop sets INITIAL and clears current_button; executing
\* Play, PlayCut, PlayLock sets PLAY_ONCE, PLAY_CUT, PLAY_LOCK_PENDING and
\* latches the button; a long press of the latched button in
\* PLAY_LOCK_PENDING moves to PLAY_LOCKED without a lookup; a release of the
\* latched button returns to INITIAL and stops the player exactly from
\* PLAY_CUT and PLAY_LOCK_PENDING; after press, long press, release of a
\* play_lock button a fresh press and release of it ends in INITIAL.
C12_ButtonFsm == [](C12_Cycle) /\ [][C12_Step]_vars

\* the whole cycle has been played on button 1
C12_Witness ==
    /\ cycle = 5
    /\ evt = [button |-> 1, event |-> "BUTTON_RELEASE"]
    /\ current_button = 1
    /\ button_fsm_state = "INITIAL"

\* ---- the dispatch of a release

\* a release of a button that is not the latched one changes nothing of
\* the mapper and executes nothing
C13_ReleaseIgnored ==
    (mpc = "ready" /\ evt.event = "BUTTON_RELEASE" /\ evt.button >= 1
       /\ ev_button # evt.button)
    => (executed = NoAction /\ mapper_out = <<>> /\ current_button = ev_button)

\* C13: a release of a matrix button 1..12 that is not the latched button
\* matches none of the rules before the lookup and reaches it: the binding
\* of (current_page, button, release) is looked up and, if there is one,
\* its action is executed.
C13_ReleaseLookup ==
    (mpc = "ready" /\ evt.event = "BUTTON_RELEASE" /\ evt.button >= 1
       /\ ev_button # evt.button)
    => executed = find_mapping(pages, ev_page, evt.button, "BUTTON_RELEASE")

\* ---------------------------------------------------------------------
\* Direct page selection (mapper_handle_event, PAGE mode)

\* the handler called the player
calls_player(out) ==
    \E i \in 1..Len(out) : out[i].call \in {"player_play", "player_stop"}

\* the last event handled was a press of a matrix button in PAGE mode
page_press ==
    mpc = "ready" /\ evt.event = "BUTTON_PRESS" /\ evt.button >= 1 /\ evt.button <= 12
        /\ ev_mode = "PAGE"

\* C33: in PAGE mode a press on matrix button n with n <= page_count makes
\* the page numbered n current and puts the encoder back in VOLUME mode;
\* with n > page_count the page and the mode stay as they were; either way
\* no mapping is looked up and the player gets no play and no stop.
C33_DirectPageSelect ==
    page_press =>
        /\ executed = NoAction
        /\ ~calls_player(mapper_out)
        /\ IF evt.button <= page_count
           THEN /\ current_page # NULL
                /\ pages[page_index(pages, current_page)].page_number = evt.button
                /\ encoder_mode = "VOLUME"
           ELSE current_page = ev_page /\ encoder_mode = "PAGE"

\* a press that selected another page, on a key the old page binds
C33_Witness ==
    /\ page_press
    /\ evt.button <= page_count
    /\ current_page # ev_page
    /\ find_mapping(pages, ev_page, evt.button, "BUTTON_PRESS") # NoAction

\* a press on a number past the last page, on a key the page binds
C33_NoSuchPage ==
    /\ page_press
    /\ evt.button > page_count
    /\ find_mapping(pages, ev_page, evt.button, "BUTTON_PRESS") # NoAction

\* ---------------------------------------------------------------------
\* A second button pressed while the first is held (execute_action)

\* what an event leaves alone when the held button is followed
not_mapper_sustain == <<audio_vars, read_vars, button_vars, encoder_vars, parse_vars,
    entry_vars, sink_vars, volume_vars, scale_vars, api_vars, throttle_vars>>

\* mapper_handle_event, with the held button followed
held_event ==
    /\ \E e \in InputEvents :
          /\ handled(e)
          /\ sustained' = sustain(e, handle_event(mapper_state, e.button, e.event))
    /\ UNCHANGED not_mapper_sustain

\* fgets returns a whole line that parses and is inserted
load_mapping_line == load_line /\ line_kind' = "fields" /\ mpc' = "read"

\* the first source is there, the second is not configured
SustainInit == MapInit /\ source_cfg = <<"present", "null">>

SustainNext ==
    \/ mapper_init
    \/ load_mappings_from_file
    \/ load_mapping_line
    \/ load_eof
    \/ held_event

SpecSustain == SustainInit /\ [][SustainNext]_vars

\* the step executes a play of another button while a button is latched
\* in PlayCut or PlayLockPending
second_play ==
    /\ mpc = "ready"
    /\ executed'.type \in PlayFamily
    /\ current_button >= 1
    /\ evt'.button # current_button
    /\ button_fsm_state \in {"PLAY_CUT", "PLAY_LOCK_PENDING"}

\* the step is a release of the held button
held_release ==
    /\ mpc = "ready"
    /\ sustained >= 1
    /\ evt'.event = "BUTTON_RELEASE"
    /\ evt'.button = sustained

C34_Step ==
    /\ second_play =>
          /\ current_button' = evt'.button
          /\ ~stops(mapper_out')
          /\ sustained' = current_button
    /\ held_release =>
          /\ ~stops(mapper_out')
          /\ executed' = NoAction
          /\ UNCHANGED <<button_fsm_state, current_button, current_filename>>

\* the held button is never the latched one
C34_HeldApart == sustained >= 1 => sustained # current_button

\* C34: when a play-family action of button B is executed while button A is
\* latched in PlayCut or PlayLockPending, current_button becomes B and the
\* mapper issues no Stop; a later Release of A issues no Stop and leaves the
\* button FSM state and current_button unchanged.
C34_SecondSustained == [](C34_HeldApart) /\ [][C34_Step]_vars

\* A was held, B's play_cut replaced it, and A has just been released: B
\* is still latched
C34_Witness ==
    /\ evt.event = "BUTTON_RELEASE"
    /\ evt.button = sustained
    /\ sustained >= 1
    /\ current_button >= 1
    /\ button_fsm_state \in {"PLAY_CUT", "PLAY_LOCK_PENDING"}

\* ---------------------------------------------------------------------
\* The page ring: numbers, links and rotations

\* the pages the lines of this load name, and the lines it has
RingPages == {"p1", "p2", "p3"}
MaxRingLines == 4

\* fgets returns a line that binds button 1 of one of the pages to stop
ring_load_line ==
    /\ mpc = "read"
    /\ pending = NoTail
    /\ reads < MaxRingLines
    /\ reads' = reads + 1
    /\ \E p \in RingPages :
          LET r == parse_and_insert_mapping(pages, current_page, page_count,
                                            Fields(p, 1, "press", "stop", <<>>),
                                            Roots[src], "ok")
          IN  /\ r.ret = "OK"
              /\ pages' = r.pages
              /\ current_page' = r.current_page
              /\ page_count' = r.page_count
    /\ UNCHANGED <<mpc, handle, init_ret, mapper_out, source_cfg, src, any_loaded,
                   pending, last_line, line_kind, abort_kind, event_vars, not_mapper>>

RingNext ==
    \/ mapper_init
    \/ load_mappings_from_file
    \/ ring_load_line
    \/ load_eof
    \/ mapper_handle_event

SpecRing == SustainInit /\ [][RingNext]_vars

page_number_of(pg, page_id) == pg[page_index(pg, page_id)].page_number

\* the step is a rotation handled in PAGE mode, d = 1 for CW
rotation(d) ==
    /\ mpc = "ready"
    /\ encoder_mode = "PAGE"
    /\ evt'.event = (IF d = 1 THEN "ENCODER_ROTATE_CW" ELSE "ENCODER_ROTATE_CCW")

\* the numbers are 1..page_count, and the ring runs from page 1 to the
\* last page loaded and down to page 2; next and prev undo each other
C39_Ring ==
    /\ page_count = Len(pages)
    /\ \A i \in 1..Len(pages) :
          pages[i].page_number = (IF i = 1 THEN 1 ELSE Len(pages) - i + 2)
    /\ \A i \in 1..Len(pages) :
          /\ ring_step(pages, ring_step(pages, pages[i].page_id, 1), -1)
                = pages[i].page_id
          /\ ring_step(pages, ring_step(pages, pages[i].page_id, -1), 1)
                = pages[i].page_id
    /\ current_page = NULL <=> pages = <<>>
    /\ (mpc \notin {"ready"} /\ pages # <<>>) => current_page = pages[1].page_id

C39_Step ==
    \* a page keeps its number
    /\ \A i \in 1..Len(pages) :
          /\ has_page(pages', pages[i].page_id)
          /\ page_number_of(pages', pages[i].page_id) = pages[i].page_number
    \* a new page gets the next number and is linked after the first page
    /\ Len(pages') > Len(pages) =>
          LET k == IF pages = <<>> THEN 1 ELSE 2
          IN  /\ Len(pages') = Len(pages) + 1
              /\ ~has_page(pages, pages'[k].page_id)
              /\ pages'[k].page_number = page_count + 1
              /\ pages # <<>> => pages'[1].page_id = pages[1].page_id
    \* CW goes from page 1 to the last page and then down, CCW up
    /\ (rotation(1) /\ page_count > 1) =>
          page_number_of(pages, current_page') =
              (IF page_number_of(pages, current_page) = 1 THEN page_count
               ELSE page_number_of(pages, current_page) - 1)
    /\ (rotation(-1) /\ page_count > 1) =>
          page_number_of(pages, current_page') =
              (IF page_number_of(pages, current_page) = page_count THEN 1
               ELSE page_number_of(pages, current_page) + 1)
    \* with one page a rotation changes nothing
    /\ ((rotation(1) \/ rotation(-1)) /\ page_count = 1) =>
          current_page' = current_page /\ mapper_out' = <<>>

\* C39: pages get page_number 1..page_count in order of first appearance and
\* are never renumbered, and each new page is linked right after the first
\* one: with n pages CW rotations in PAGE mode from page 1 visit n, n-1,
\* ..., 2 and 1 again, CCW the opposite order, a CW and a CCW return to the
\* same page, and with one page a rotation changes nothing.
C39_PageRingOrder == [](C39_Ring) /\ [][C39_Step]_vars

\* three pages, and a CW rotation has gone from page 1 to page 3
C39_Witness ==
    /\ mpc = "ready"
    /\ page_count = 3
    /\ evt.event = "ENCODER_ROTATE_CW"
    /\ ev_mode = "PAGE"
    /\ page_number_of(pages, ev_page) = 1
    /\ page_number_of(pages, current_page) = 3

\* ---------------------------------------------------------------------
\* Entering a page: the mapper's preload requests and the preload task

\* mappings on the page entered
MaxPageMappings == 3

PRELOAD_QUEUE_LENGTH == 16

PageActions ==
    {[type |-> "STOP", filename |-> NULL]}
    \cup {[type |-> "PLAY", filename |-> f] : f \in Files}

RECURSIVE PageLists(_)
\* the mapping lists of at most n nodes
PageLists(n) ==
    IF n = 0 THEN {<<>>}
    ELSE LET shorter == PageLists(n - 1)
         IN  shorter \cup
             {<<NewMapping(b, "BUTTON_PRESS", a)>> \o ms :
                 ms \in {l \in shorter : Len(l) = n - 1},
                 b \in 1..MaxPageMappings,
                 a \in PageActions}

distinct_buttons(ms) ==
    \A i, j \in 1..Len(ms) : i # j => ms[i].button_number # ms[j].button_number

entry_init ==
    /\ epc = "page"
    /\ pl_mappings \in {ms \in PageLists(MaxPageMappings) : distinct_buttons(ms)}
    /\ pl_calls = <<>>
    /\ pl_sent = <<>>

PreloadInit ==
    audio_init /\ read_idle /\ button_idle /\ encoder_idle /\ mapper_idle /\ parse_idle
    /\ entry_init /\ sink_idle /\ volume_idle /\ scale_idle /\ api_idle
    /\ throttle_idle /\ sustain_idle

\* preload_current_page_files up to its first call
page_enter ==
    /\ epc = "page"
    /\ pl_calls' = preload_current_page_files(
                       <<[NewPage("p1", 1) EXCEPT !.mappings = pl_mappings]>>, "p1")
    /\ epc' = IF pl_calls' = <<>> THEN "entered" ELSE "calls"
    /\ UNCHANGED <<pl_mappings, pl_sent, not_entry>>

\* the next call: player_flush_preload empties the queue, player_preload
\* sends to its back and drops the file when the queue is full
page_call ==
    /\ epc = "calls"
    /\ LET c == Head(pl_calls)
       IN  IF c.call = "player_flush_preload"
           THEN /\ preload_queue' = <<>>
                /\ UNCHANGED pl_sent
           ELSE /\ preload_queue' = IF Len(preload_queue) < PRELOAD_QUEUE_LENGTH
                                    THEN Append(preload_queue, c.arg)
                                    ELSE preload_queue
                /\ pl_sent' = Append(pl_sent, c.arg)
    /\ pl_calls' = Tail(pl_calls)
    /\ epc' = IF pl_calls' = <<>> THEN "entered" ELSE "calls"
    /\ UNCHANGED <<pl_mappings, cache, used_cache_bytes, cache_mutex,
                   active_stream_count, notified, player_vars, preload_vars, tick,
                   read_vars, button_vars, encoder_vars, mapper_vars, parse_vars,
                   sink_vars, volume_vars, scale_vars, api_vars,
                   throttle_vars, sustain_vars>>

PreloadNext ==
    \/ page_enter
    \/ page_call
    \/ cache_task_receive
    \/ cache_file_check
    \/ cache_parse_wav_file
    \/ cache_reserve_take
    \/ cache_reserve_and_alloc
    \/ cache_read_open
    \/ cache_read_pcm_data
    \/ cache_unreserve
    \/ cache_store_entry

SpecPreload == PreloadInit /\ [][PreloadNext]_vars

\* the file entries of the page entered, as the mapper sorts them
page_entries == bubble_sort(collect_files(pl_mappings, 1, <<>>), 1)

\* the preload task holds the first file it received since the page was entered
first_serviced ==
    /\ epc \in {"calls", "entered"}
    /\ tpc # "idle"
    /\ Len(pl_sent) - Len(preload_queue) = 1

\* the files are sent once each, the file of the higher button earlier, every
\* file with the highest button that plays it, and after the flush
C14_Enqueued ==
    epc = "entered" =>
        /\ Len(pl_sent) = Len(page_entries)
        /\ \A k \in 1..Len(pl_sent) : pl_sent[k] = page_entries[k].filename
        /\ \A j, k \in 1..Len(page_entries) :
               j < k => /\ page_entries[j].button_number > page_entries[k].button_number
                        /\ page_entries[j].filename # page_entries[k].filename
        /\ \A k \in 1..Len(page_entries) : \A i \in 1..Len(pl_mappings) :
               (/\ action_has_file(pl_mappings[i].action.type)
                /\ pl_mappings[i].action.filename = page_entries[k].filename)
               => pl_mappings[i].button_number <= page_entries[k].button_number

\* the first file the preload task services is that of the highest button
C14_HighestFirst ==
    first_serviced => item = page_entries[1].filename

\* C14: among the files enqueued for the page entered, the preload task
\* services the file of the lowest-numbered button first
C14_LowestFirst ==
    first_serviced => item = page_entries[Len(page_entries)].filename

\* ---------------------------------------------------------------------
\* The player loop: one command and one chunk per iteration

\* a Stop(interrupt_now = true) is the next command of the queue
stop_is_next ==
    /\ cmd_queue # <<>>
    /\ Head(cmd_queue).type = "STOP"
    /\ Head(cmd_queue).interrupt_now

\* this step wrote a chunk of the open stream to the sink
chunk_written ==
    /\ stream # NoStream
    /\ stream' # NoStream
    /\ stream'.position = stream.position + 1

\* this step took a command from the queue
dequeued ==
    /\ cmd_queue # <<>>
    /\ cmd_queue' = Tail(cmd_queue)

C15_Step ==
    \* a command is taken at the top of the loop only, and one at a time
    /\ dequeued => /\ ppc = "loop"
                   /\ ppc' = "loop" => stream' = NoStream
    \* a chunk ends the iteration
    /\ chunk_written => /\ ppc' = "loop"
                        /\ cmd_queue' = cmd_queue
    \* with the stop waiting, a chunk is written only by the iteration that
    \* polled the queue before, and the next poll finds the stop
    /\ (stop_is_next /\ chunk_written) => ppc = "chunk"
    /\ (stop_is_next /\ ppc = "chunk") => ppc' \in {"chunk", "loop"}
    \* the stop closes the stream and emits STOPPED
    /\ (stop_is_next /\ dequeued) =>
           /\ stream' = NoStream
           /\ ppc' = "loop"
           /\ stream # NoStream =>
                  /\ events' = <<Event("STOPPED", NULL)>>
                  /\ sd_gpio' = FALSE
           /\ stream = NoStream => UNCHANGED events
    \* no stream, no chunk; a stream comes with the STARTED of a Play only
    /\ (stream = NoStream /\ stream' # NoStream) =>
           /\ cmd.type = "PLAY"
           /\ events' = <<Event("STARTED", cmd.filename)>>

\* C15: every iteration of the player loop takes at most one command and
\* transfers at most one chunk; with an immediate Stop next in the queue at
\* most one more chunk is written before the stream is closed and STOPPED
\* emitted, and nothing is written afterwards until a Play starts a stream
C15_StopLatency == [][C15_Step]_vars

\* the stop is about to cut a two-chunk stream after its first chunk
C15_Witness ==
    /\ stop_is_next
    /\ ppc = "loop"
    /\ stream # NoStream
    /\ stream.position = 1
    /\ FileChunks(stream.filename) = 2

\* ---------------------------------------------------------------------
\* cmd_play when the stream cannot be opened

opening == ppc \in {"open", "open_lookup", "open_hit", "open_miss"}

\* no stream holds a reference or the SD card
no_stream_resources(c, asc) ==
    /\ asc = 0
    /\ \A i \in Slots : c[i].ref_count = 0

\* what the open attempt starts from and what it holds on the way
C16_Before ==
    /\ opening => stream = NoStream
    /\ ppc \in {"open", "open_lookup", "open_miss"} =>
           no_stream_resources(cache, active_stream_count)
    /\ ppc = "open_hit" =>
           /\ active_stream_count = 0
           /\ \A i \in Slots : cache[i].ref_count = IF i = entry THEN 1 ELSE 0

C16_Step ==
    \* cmd_play returns without a stream
    /\ (opening /\ ppc' = "loop") =>
           /\ events' = <<Event("ERROR", NULL)>>
           /\ stream' = NoStream
           /\ sd_gpio' = FALSE
           /\ no_stream_resources(cache', active_stream_count')
    \* STARTED comes with a stream only
    /\ (opening /\ ~opening' /\ ppc' # "loop") =>
           /\ stream' # NoStream
           /\ events' = <<Event("STARTED", stream'.filename)>>
    \* idle, the player emits nothing until it takes the next command
    /\ (stream = NoStream /\ ppc = "loop" /\ ~dequeued) => UNCHANGED events

\* C16: when the stream of a Play cannot be opened the player emits ERROR
\* and no STARTED, is idle with no stream and the amplifier line low, and
\* active_stream_count and every ref_count are what they were before the
\* attempt
C16_OpenFailure == [](C16_Before) /\ [][C16_Step]_vars

\* a Play that cut a stream short is opening a cached file
C16_Witness ==
    /\ ppc = "open_hit"
    /\ cache[entry].ref_count = 1
    /\ events = <<Event("STOPPED", NULL)>>
    /\ sd_gpio = TRUE

\* ---------------------------------------------------------------------
\* The player after an I/O error: both tasks under the scheduler

\* the steps of player_task
player_task ==
    \/ cmd_play_close
    \/ cmd_stop
    \/ open_stream_take
    \/ open_stream_lookup
    \/ open_stream_hit
    \/ open_stream_miss
    \/ send_chunk

\* the steps of cache_task
cache_task ==
    \/ cache_task_receive
    \/ cache_file_check
    \/ cache_parse_wav_file
    \/ cache_reserve_take
    \/ cache_reserve_and_alloc
    \/ cache_read_open
    \/ cache_read_wait
    \/ cache_read_pcm_data
    \/ cache_unreserve
    \/ cache_store_entry

\* the files the callers ask for: two formats, one and two chunks
RecoverFiles == {"a.wav", "b.wav"}

recover_play == \E f \in RecoverFiles : send_cmd(PlayCmd(f))

recover_preload ==
    \E f \in RecoverFiles :
        /\ preload_queue' = IF Len(preload_queue) < PreloadQueueLen
                            THEN Append(preload_queue, f)
                            ELSE preload_queue
        /\ UNCHANGED <<cache, used_cache_bytes, cache_mutex, active_stream_count,
                       notified, player_vars, preload_vars, tick, other_vars>>

RecoverNext ==
    \/ recover_play
    \/ player_stop
    \/ recover_preload
    \/ player_task
    \/ cache_task

\* a ready task runs in the end; the cache mutex, given back by the preload
\* task, goes to the waiting player task, which has the higher priority
SpecRecover ==
    /\ Init
    /\ [][RecoverNext]_vars
    /\ WF_vars(player_task)
    /\ SF_vars(open_stream_take)
    /\ WF_vars(cache_task)

play_is_next ==
    /\ cmd_queue # <<>>
    /\ Head(cmd_queue).type = "PLAY"

play_answered ==
    /\ ~opening
    /\ events # <<>>
    /\ events[1].name \in {"STARTED", "ERROR"}

\* this step closed a stream that had data left, on no command
io_error ==
    /\ stream # NoStream
    /\ ~stream.eof_reached
    /\ stream_remaining(cache, stream) > 0
    /\ ~dequeued
    /\ stream' = NoStream

C17_Step ==
    \* the error closes the stream and emits ERROR, not STOPPED
    /\ io_error =>
           /\ events' = <<Event("ERROR", NULL)>>
           /\ ppc' = "loop"
           /\ sd_gpio' = FALSE
           /\ no_stream_resources(cache', active_stream_count')
           /\ UNCHANGED cmd_queue
    \* idle, the task waits for a command: no second event, no retry
    /\ (stream = NoStream /\ ppc = "loop" /\ ~dequeued) =>
           UNCHANGED <<events, stream, ppc, sd_gpio>>
    \* the Play it takes is opened, and answered with STARTED or ERROR
    /\ (dequeued /\ play_is_next) =>
           /\ ppc' = "open"
           /\ cmd' = Head(cmd_queue)
    /\ (opening /\ ~opening') =>
           \/ events' = <<Event("STARTED", cmd.filename)>> /\ stream' # NoStream
           \/ events' = <<Event("ERROR", NULL)>> /\ stream' = NoStream

C17_Live ==
    /\ play_is_next ~> (ppc = "open")
    /\ (ppc = "open") ~> play_answered

\* C17: a read or sink-write error during the transfer closes the stream and
\* emits one ERROR, no STOPPED, with no retry; the player task is then idle
\* and a Play sent afterwards is taken, opened and answered with STARTED or
\* ERROR
C17_Recovery == [][C17_Step]_vars /\ C17_Live

\* idle after an ERROR, the next Play waiting in the queue
C17_Witness ==
    /\ ppc = "loop"
    /\ stream = NoStream
    /\ events = <<Event("ERROR", NULL)>>
    /\ play_is_next

\* ---------------------------------------------------------------------
\* send_chunk and the sink: what player_task does with the result of
\* i2s_channel_write

\* samples of the player's buffer (PCM_BUFFER_SIZE is 480 in the firmware)
SinkBufferSamples == 3
\* samples of the longest stream
MaxStreamSamples == 12

\* what i2s_channel_write(buf, size, &bytes_written, I2S_WRITE_TIMEOUT_MS) can
\* hand back: everything written, a timeout with less than everything, or a
\* channel that does not accept the write
i2s_channel_write(size) ==
    {[ret |-> "ESP_OK", bytes_written |-> size]}
    \cup {[ret |-> "ESP_ERR_TIMEOUT", bytes_written |-> w] : w \in 0..(size - 1)}
    \cup {[ret |-> "ESP_ERR_INVALID_STATE", bytes_written |-> 0]}

sink_init ==
    /\ kpc = "idle"
    /\ k_remaining = 0
    /\ k_samples = 0
    /\ k_ret = NULL
    /\ k_written = 0
    /\ k_event = NULL

SinkInit ==
    audio_init /\ read_idle /\ button_idle /\ encoder_idle /\ mapper_idle /\ parse_idle
    /\ entry_idle /\ volume_idle /\ scale_idle /\ sink_init /\ api_idle
    /\ throttle_idle /\ sustain_idle

\* cmd_play with no stream open and a stream that opens
sink_play ==
    /\ kpc = "idle"
    /\ \E n \in 1..MaxStreamSamples : k_remaining' = n
    /\ kpc' = "playing"
    /\ k_samples' = 0
    /\ k_ret' = NULL
    /\ k_written' = 0
    /\ k_event' = "STARTED"
    /\ UNCHANGED not_sink

\* close_stream(player, event, ..)
sink_close(event) ==
    /\ kpc' = "idle"
    /\ k_event' = event

\* one iteration of player_task with the stream open: send_chunk, whose
\* read fails or ends the stream
sink_no_samples ==
    /\ kpc = "playing"
    /\ k_samples' = 0
    /\ k_ret' = NULL
    /\ k_written' = 0
    /\ \/ /\ k_remaining = 0
          /\ sink_close("STOPPED")
       \/ /\ k_remaining > 0
          /\ sink_close("ERROR")
    /\ UNCHANGED <<k_remaining, not_sink>>

\* one iteration of player_task with the stream open: send_chunk reads
\* samples and writes them to the sink; ret != ESP_OK closes the stream with
\* ERROR, written == 0 with STOPPED
sink_transfer ==
    /\ kpc = "playing"
    /\ k_remaining > 0
    /\ LET samples_read == Min(SinkBufferSamples, k_remaining)
       IN  /\ k_samples' = samples_read
           /\ k_remaining' = k_remaining - samples_read
           /\ \E w \in i2s_channel_write(samples_read * 2) :
                /\ k_ret' = w.ret
                /\ k_written' = w.bytes_written
                /\ IF w.ret # "ESP_OK" THEN sink_close("ERROR")
                   ELSE IF w.bytes_written = 0 THEN sink_close("STOPPED")
                   ELSE /\ kpc' = "playing"
                        /\ k_event' \in {k_event, "PROGRESS"}
    /\ UNCHANGED not_sink

SinkNext ==
    \/ sink_play
    \/ sink_no_samples
    \/ sink_transfer

SpecSink == SinkInit /\ [][SinkNext]_vars

\* the last write of a chunk timed out, or put nothing of it into the sink
write_timed_out ==
    \/ k_ret = "ESP_ERR_TIMEOUT"
    \/ k_ret # NULL /\ k_samples > 0 /\ k_written = 0

\* a write that does not return ESP_OK ends the stream with ERROR
C18_TimeoutCloses ==
    (k_ret \notin {NULL, "ESP_OK"}) => (kpc = "idle" /\ k_event = "ERROR")

\* C18: when the sink write times out or reports no byte written for a chunk
\* that is not empty, the stream stays open for the next iteration and
\* neither STOPPED nor ERROR is emitted
C18_TimeoutTransient ==
    write_timed_out => (kpc = "playing" /\ k_event \notin {"STOPPED", "ERROR"})

\* ---------------------------------------------------------------------
\* The software volume: player_volume_set / _adjust / _get and send_chunk

VOLUME_LEVELS == 32

VOLUME_FACTOR_UNITY == 65536

\* volume_table[index], index 0 .. VOLUME_LEVELS - 1
VolumeFactors ==
    <<    0,    82,   102,   128,   160,   200,   250,   312,
        390,   487,   608,   760,   950,  1187,  1484,  1854,
       2317,  2895,  3618,  4521,  5649,  7059,  8821, 11023,
      13774, 17212, 21508, 26877, 33586, 41969, 52445, 65536>>

\* a table whose entry 20 is below its entry 19
volume_table_dip(index) ==
    IF index = 20 THEN VolumeFactors[19] ELSE VolumeFactors[index + 1]

volume_table(index) == VolumeFactors[index + 1]

\* calls of the volume API each caller makes
MaxCalls == 2

\* the tasks that call the volume API
Callers == {"mapper", "console"}

\* the int8_t arguments the callers pass
SetInputs == {-128, -1, 0, 31, 32, 127}

StepInputs == {-128, -1, 0, 1, 127}

\* (int8_t)x of an int32_t x
int8(x) == ((x + 128) % 256) - 128

\* player_volume_set's clamp of its int8_t index
clamp_index(index) ==
    IF index < 0 THEN 0
    ELSE IF index >= VOLUME_LEVELS THEN VOLUME_LEVELS - 1
    ELSE index

\* player_init: the index loaded from NVS (uint16_t, clamped), or the
\* default when the load fails
volume_init ==
    /\ volume_mutex = "free"
    /\ vol_current \in {0, VOLUME_LEVELS \div 2, VOLUME_LEVELS - 1}
    /\ sw_volume_factor = volume_table(vol_current)
    /\ caller_pc = [c \in Callers |-> "idle"]
    /\ caller_index = [c \in Callers |-> 0]
    /\ caller_ret = [c \in Callers |-> -1]
    /\ caller_calls = [c \in Callers |-> 0]
    /\ lpc = "loop"
    /\ volume_factor = 0

VolumeInit ==
    audio_init /\ read_idle /\ button_idle /\ encoder_idle /\ mapper_idle /\ parse_idle
    /\ entry_idle /\ sink_idle /\ scale_idle /\ volume_init /\ api_idle
    /\ throttle_idle /\ sustain_idle

\* player_volume_set(index): the clamp, before the mutex
volume_set_call(c) ==
    /\ caller_pc[c] = "idle"
    /\ caller_calls[c] < MaxCalls
    /\ caller_calls' = [caller_calls EXCEPT ![c] = @ + 1]
    /\ \E index \in SetInputs :
         caller_index' = [caller_index EXCEPT ![c] = clamp_index(index)]
    /\ caller_pc' = [caller_pc EXCEPT ![c] = "set_take"]
    /\ caller_ret' = [caller_ret EXCEPT ![c] = -1]
    /\ UNCHANGED <<volume_mutex, vol_current, sw_volume_factor, lpc, volume_factor,
                   not_volume>>

\* an update that does not wait for the mutex
volume_take_no_wait(c, from, to) ==
    /\ caller_pc[c] = from
    /\ volume_mutex' = c
    /\ caller_pc' = [caller_pc EXCEPT ![c] = to]
    /\ UNCHANGED <<vol_current, sw_volume_factor, caller_index, caller_ret,
                   caller_calls, lpc, volume_factor, not_volume>>

\* xSemaphoreTake(state->volume_mutex, portMAX_DELAY)
volume_take(c, from, to) ==
    /\ caller_pc[c] = from
    /\ volume_mutex = "free"
    /\ volume_mutex' = c
    /\ caller_pc' = [caller_pc EXCEPT ![c] = to]
    /\ UNCHANGED <<vol_current, sw_volume_factor, caller_index, caller_ret, caller_calls, lpc,
                   volume_factor, not_volume>>

volume_set_take(c) == volume_take(c, "set_take", "set_factor")

\* state->sw_volume_factor = volume_table[index]
volume_set_factor(c) ==
    /\ caller_pc[c] = "set_factor"
    /\ sw_volume_factor' = volume_table(caller_index[c])
    /\ caller_pc' = [caller_pc EXCEPT ![c] = "set_index"]
    /\ UNCHANGED <<volume_mutex, vol_current, caller_index, caller_ret, caller_calls, lpc,
                   volume_factor, not_volume>>

\* state->vol_current = (uint8_t)index
volume_set_index(c) ==
    /\ caller_pc[c] = "set_index"
    /\ vol_current' = caller_index[c]
    /\ caller_pc' = [caller_pc EXCEPT ![c] = "set_give"]
    /\ UNCHANGED <<volume_mutex, sw_volume_factor, caller_index, caller_ret, caller_calls, lpc,
                   volume_factor, not_volume>>

\* xSemaphoreGive, then the deferred save and the VOLUME_CHANGED event
volume_set_give(c) ==
    /\ caller_pc[c] = "set_give"
    /\ volume_mutex' = "free"
    /\ caller_pc' = [caller_pc EXCEPT ![c] = "idle"]
    /\ UNCHANGED <<vol_current, sw_volume_factor, caller_index, caller_ret, caller_calls, lpc,
                   volume_factor, not_volume>>

\* player_volume_adjust(step): nothing for step == 0
volume_adjust_call(c) ==
    /\ caller_pc[c] = "idle"
    /\ caller_calls[c] < MaxCalls
    /\ caller_calls' = [caller_calls EXCEPT ![c] = @ + 1]
    /\ \E step \in StepInputs :
         IF step = 0
         THEN \* return ESP_OK before the mutex
              UNCHANGED <<caller_index, caller_pc>>
         ELSE /\ caller_index' = [caller_index EXCEPT ![c] = step]
              /\ caller_pc' = [caller_pc EXCEPT ![c] = "adjust_take"]
    /\ caller_ret' = [caller_ret EXCEPT ![c] = -1]
    /\ UNCHANGED <<volume_mutex, vol_current, sw_volume_factor, lpc, volume_factor,
                   not_volume>>

volume_adjust_take(c) == volume_take(c, "adjust_take", "adjust_read")

\* new_index = vol_current + step under the mutex, the mutex is given, and
\* player_volume_set((int8_t)new_index) clamps
volume_adjust_read(c) ==
    /\ caller_pc[c] = "adjust_read"
    /\ caller_index' = [caller_index EXCEPT ![c] =
                            clamp_index(int8(vol_current + caller_index[c]))]
    /\ volume_mutex' = "free"
    /\ caller_pc' = [caller_pc EXCEPT ![c] = "set_take"]
    /\ UNCHANGED <<vol_current, sw_volume_factor, caller_ret, caller_calls, lpc, volume_factor,
                   not_volume>>

\* player_volume_get
volume_get_call(c) ==
    /\ caller_pc[c] = "idle"
    /\ caller_calls[c] < MaxCalls
    /\ caller_calls' = [caller_calls EXCEPT ![c] = @ + 1]
    /\ volume_mutex = "free"
    /\ volume_mutex' = c
    /\ caller_pc' = [caller_pc EXCEPT ![c] = "get_read"]
    /\ caller_ret' = [caller_ret EXCEPT ![c] = -1]
    /\ UNCHANGED <<vol_current, sw_volume_factor, caller_index, lpc, volume_factor,
                   not_volume>>

\* *volume_index = vol_current, and the mutex is given
volume_get_read(c) ==
    /\ caller_pc[c] = "get_read"
    /\ caller_ret' = [caller_ret EXCEPT ![c] = vol_current]
    /\ volume_mutex' = "free"
    /\ caller_pc' = [caller_pc EXCEPT ![c] = "idle"]
    /\ UNCHANGED <<vol_current, sw_volume_factor, caller_index, caller_calls, lpc,
                   volume_factor, not_volume>>

\* send_chunk: xSemaphoreTake(player->volume_mutex, portMAX_DELAY)
chunk_volume_take ==
    /\ lpc = "loop"
    /\ volume_mutex = "free"
    /\ volume_mutex' = "player"
    /\ lpc' = "read"
    /\ UNCHANGED <<vol_current, sw_volume_factor, caller_pc, caller_index,
                   caller_ret, caller_calls, volume_factor, not_volume>>

\* volume_factor = player->sw_volume_factor, and the mutex is given
chunk_volume_read ==
    /\ lpc = "read"
    /\ volume_factor' = sw_volume_factor
    /\ volume_mutex' = "free"
    /\ lpc' = "apply"
    /\ UNCHANGED <<vol_current, sw_volume_factor, caller_pc, caller_index,
                   caller_ret, caller_calls, not_volume>>

\* apply_software_volume, the write, and the next iteration
chunk_volume_apply ==
    /\ lpc = "apply"
    /\ lpc' = "loop"
    /\ volume_factor' = 0
    /\ UNCHANGED <<volume_mutex, vol_current, sw_volume_factor, caller_pc,
                   caller_index, caller_ret, caller_calls, not_volume>>

VolumeNext ==
    \/ \E c \in Callers : volume_set_call(c)
    \/ \E c \in Callers : volume_set_take(c)
    \/ \E c \in Callers : volume_set_factor(c)
    \/ \E c \in Callers : volume_set_index(c)
    \/ \E c \in Callers : volume_set_give(c)
    \/ \E c \in Callers : volume_adjust_call(c)
    \/ \E c \in Callers : volume_adjust_take(c)
    \/ \E c \in Callers : volume_adjust_read(c)
    \/ \E c \in Callers : volume_get_call(c)
    \/ \E c \in Callers : volume_get_read(c)
    \/ chunk_volume_take
    \/ chunk_volume_read
    \/ chunk_volume_apply

SpecVolume == VolumeInit /\ [][VolumeNext]_vars

table_values == {volume_table(i) : i \in 0..(VOLUME_LEVELS - 1)}

setting == {"set_take", "set_factor", "set_index", "set_give"}

C19_Consistent ==
    \* with the mutex free, the two fields agree
    /\ volume_mutex = "free" =>
           /\ vol_current \in 0..(VOLUME_LEVELS - 1)
           /\ sw_volume_factor = volume_table(vol_current)
    \* the index player_volume_set stores is clamped, and both fields hold it
    \* when the mutex is given
    /\ \A c \in Callers :
           /\ caller_pc[c] \in setting => caller_index[c] \in 0..(VOLUME_LEVELS - 1)
           /\ caller_pc[c] = "set_give" =>
                  /\ vol_current = caller_index[c]
                  /\ sw_volume_factor = volume_table(caller_index[c])
           /\ caller_ret[c] \in -1..(VOLUME_LEVELS - 1)
    \* the mutex is held by the task that is inside
    /\ \A c \in Callers :
           caller_pc[c] \in {"set_factor", "set_index", "set_give", "adjust_read",
                             "get_read"} <=> volume_mutex = c
    /\ lpc = "read" <=> volume_mutex = "player"
    \* what send_chunk scales with
    /\ lpc = "apply" => volume_factor \in table_values

C19_Step ==
    \* set(i) stores clamp(i, 0, 31)
    /\ \A c \in Callers :
           (caller_pc[c] = "idle" /\ caller_pc'[c] = "set_take") =>
               \E i \in SetInputs :
                   caller_index'[c] = IF i < 0 THEN 0 ELSE IF i > 31 THEN 31 ELSE i
    \* the fields change under the mutex only, by its holder
    /\ (vol_current' # vol_current \/ sw_volume_factor' # sw_volume_factor) =>
           /\ volume_mutex \in Callers
           /\ volume_mutex' = volume_mutex
    \* send_chunk reads the factor of the current index
    /\ (lpc = "read" /\ lpc' = "apply") =>
           volume_factor' = volume_table(vol_current)

\* C19: in every interleaving of the callers of player_volume_set, _adjust
\* and _get with send_chunk, whenever the volume mutex is free the index is
\* in 0..31 and the factor is volume_table[index]; set(i) stores
\* clamp(i, 0, 31); send_chunk never reads a factor that is not a table value
C19_VolumeConsistency == [](C19_Consistent) /\ [][C19_Step]_vars

\* one caller is between its two stores, the fields disagreeing, while the
\* other caller and send_chunk wait for the mutex
C19_Witness ==
    \E c, d \in Callers :
        /\ caller_pc[c] = "set_index"
        /\ sw_volume_factor # volume_table(vol_current)
        /\ caller_pc[d] \in {"set_take", "adjust_take"}
        /\ lpc = "loop"

\* ---------------------------------------------------------------------
\* player_volume_adjust: the index after a step

\* caller c is the only one inside the volume API
alone(c) == \A d \in Callers \ {c} : caller_pc[d] = "idle"

\* the step of caller c is the sum under the mutex: caller_index[c] holds
\* the step before it and the index handed to player_volume_set after it
adjust_sum(c) ==
    caller_pc[c] = "adjust_read" /\ caller_pc'[c] = "set_take" /\ alone(c)

\* the step of caller c is player_volume_adjust(0)
adjust_zero(c) ==
    /\ caller_pc[c] = "idle"
    /\ caller_pc'[c] = "idle"
    /\ caller_calls'[c] = caller_calls[c] + 1

\* the (int8_t) of the call of player_volume_set: a sum in the int8_t
\* range is clamped to 0..31, a sum above it wraps below 0 and becomes 0;
\* the store writes the index handed over; adjust(0) changes nothing
C37_Step ==
    \A c \in Callers :
        /\ (adjust_sum(c) /\ vol_current + caller_index[c] <= 127) =>
              caller_index'[c] = clamp_index(vol_current + caller_index[c])
        /\ (adjust_sum(c) /\ vol_current + caller_index[c] > 127) =>
              caller_index'[c] = 0
        /\ (caller_pc[c] = "set_index" /\ caller_pc'[c] = "set_give") =>
              vol_current' = caller_index[c]
        /\ adjust_zero(c) =>
              UNCHANGED <<vol_current, sw_volume_factor, volume_mutex, caller_index>>

C37_Narrowed == [][C37_Step]_vars

C37_Clamp ==
    \A c \in Callers :
        /\ adjust_sum(c) =>
              caller_index'[c] = clamp_index(vol_current + caller_index[c])
        /\ (caller_pc[c] = "set_index" /\ caller_pc'[c] = "set_give") =>
              vol_current' = caller_index[c]
        /\ adjust_zero(c) =>
              UNCHANGED <<vol_current, sw_volume_factor, volume_mutex, caller_index>>

\* C37: for every current index c in 0..31 and every step s in -128..127,
\* with no concurrent volume call, adjust(s) leaves the index equal to
\* clamp(c + s, 0, 31); adjust(0) leaves it at c and emits no event.
C37_AdjustClamps == [][C37_Clamp]_vars

\* ---------------------------------------------------------------------
\* apply_software_volume on one sample of the buffer

\* the 16-bit samples tried: every SampleStride-th one and the ends
SampleStride == 257

Samples ==
    {x \in -32768..32767 : x % SampleStride = 0}
    \cup {-32768, -32767, -2, -1, 0, 1, 2, 32766, 32767}

\* (int16_t)x of an int32_t x
to_int16(x) == ((x + 32768) % 65536) - 32768

\* buffer[i] after apply_software_volume(buffer, .., factor): the product is
\* an int32_t, >> 16 of a negative product is the arithmetic shift
apply_software_volume(sample, factor) ==
    IF factor >= VOLUME_FACTOR_UNITY THEN sample
    ELSE IF factor = 0 THEN 0
    ELSE to_int16((sample * factor) \div 65536)

scale_init ==
    /\ apc = "in"
    /\ a_sample \in Samples
    /\ a_low \in 0..(VOLUME_LEVELS - 1)
    /\ a_high \in a_low..(VOLUME_LEVELS - 1)
    /\ a_out_low = 0
    /\ a_out_high = 0

ScaleInit ==
    audio_init /\ read_idle /\ button_idle /\ encoder_idle /\ mapper_idle /\ parse_idle
    /\ entry_idle /\ sink_idle /\ volume_idle /\ scale_init /\ api_idle
    /\ throttle_idle /\ sustain_idle

\* send_chunk scales the sample with the factor of each of the two indexes
scale_sample ==
    /\ apc = "in"
    /\ a_out_low' = apply_software_volume(a_sample, volume_table(a_low))
    /\ a_out_high' = apply_software_volume(a_sample, volume_table(a_high))
    /\ apc' = "out"
    /\ UNCHANGED <<a_sample, a_low, a_high, not_scale>>

ScaleNext == scale_sample

SpecScale == ScaleInit /\ [][ScaleNext]_vars

magnitude(x) == IF x < 0 THEN -x ELSE x

\* C20: volume_table does not decrease with the index, so a sample scaled at
\* the lower of two indexes is not louder than at the higher; at index 0
\* every sample becomes 0 and at index 31 every sample is left as it is
C20_Monotone ==
    /\ volume_table(a_low) <= volume_table(a_high)
    /\ apc = "out" =>
           /\ magnitude(a_out_low) <= magnitude(a_out_high)
           /\ a_low = 0 => a_out_low = 0
           /\ a_high = VOLUME_LEVELS - 1 => a_out_high = a_sample
           /\ a_low = VOLUME_LEVELS - 1 => a_out_low = a_sample

\* the smallest negative sample, scaled at a low and at a high index below
\* unity: the shift rounds both to -1
C20_Witness ==
    /\ apc = "out"
    /\ a_sample = -1
    /\ a_low = 1
    /\ a_high = 30
    /\ a_out_low = -1
    /\ a_out_high = -1

(***************************************************************************)
(* provider.c: the API call by call.  The player task is reduced to the    *)
(* calls it makes (audio_provider_open_stream, _read_stream, _close_stream *)
(* on at most one stream); the cache mutex, the entry mutexes, the active  *)
(* stream count and the task notification are followed statement by        *)
(* statement, in the player task and in the preload task.                  *)
(***************************************************************************)
\* the files asked for: one chunk, two chunks, and one too large to cache
ProviderFiles == {"a.wav", "b.wav", "d.wav"}

\* no preload has been asked for yet
NoRequest == [filename |-> NULL, ret |-> NULL]

\* audio_provider_init: one mutex per cache slot
api_init ==
    /\ preload_ret = NoRequest
    /\ entry_mutex = [i \in Slots |-> "free"]

ProviderInit ==
    audio_init /\ read_idle /\ button_idle /\ encoder_idle /\ mapper_idle /\ parse_idle
    /\ entry_idle /\ sink_idle /\ volume_idle /\ scale_idle /\ api_init
    /\ throttle_idle /\ sustain_idle

\* what no call of the player task on a stream changes
client_rest == <<used_cache_bytes, preload_queue, cmd_queue, sd_gpio, last_format,
                 last_progress_tick, events, preload_vars, tick, preload_ret,
                 not_api>>

\* audio_provider_preload with its result: ESP_OK once the item is queued,
\* ESP_ERR_NO_MEM when the queue is full
api_preload ==
    \E f \in ProviderFiles :
        /\ IF Len(preload_queue) < PreloadQueueLen
           THEN /\ preload_queue' = Append(preload_queue, f)
                /\ preload_ret' = [filename |-> f, ret |-> "ESP_OK"]
           ELSE /\ preload_queue' = preload_queue
                /\ preload_ret' = [filename |-> f, ret |-> "ESP_ERR_NO_MEM"]
        /\ UNCHANGED <<cache, used_cache_bytes, cache_mutex, active_stream_count,
                       notified, player_vars, preload_vars, tick, entry_mutex,
                       not_api>>

\* cmd_play calls audio_provider_open_stream(filename), no stream being open
api_open_stream ==
    /\ ppc = "loop"
    /\ stream = NoStream
    /\ \E f \in ProviderFiles : cmd' = PlayCmd(f)
    /\ ppc' = "open"
    /\ UNCHANGED <<cache, cache_mutex, active_stream_count, notified, stream,
                   entry, entry_mutex, client_rest>>

\* audio_provider_open_stream, cache hit: xSemaphoreTake(entry->mutex), the
\* cache mutex being held
api_hit_take ==
    /\ ppc = "open_lookup"
    /\ LET e == cache_lookup(cache, cmd.filename) IN
         /\ e >= 0
         /\ entry_mutex[e] = "free"
         /\ entry' = e
         /\ entry_mutex' = [entry_mutex EXCEPT ![e] = "player"]
    /\ ppc' = "hit_ref"
    /\ UNCHANGED <<cache, cache_mutex, active_stream_count, notified, cmd, stream,
                   client_rest>>

\* entry->ref_count++ (a uint8_t), the timestamp, xSemaphoreGive(entry->mutex)
api_hit_ref ==
    /\ ppc = "hit_ref"
    /\ cache' = [cache EXCEPT ![entry].ref_count = (@ + 1) % 256,
                              ![entry].last_access_tick = tick]
    /\ entry_mutex' = [entry_mutex EXCEPT ![entry] = "free"]
    /\ ppc' = "hit_give"
    /\ UNCHANGED <<cache_mutex, active_stream_count, notified, cmd, stream, entry,
                   client_rest>>

\* xSemaphoreGive(provider->cache_mutex) of the hit path
api_hit_give ==
    /\ ppc = "hit_give"
    /\ cache_mutex' = "free"
    /\ ppc' = "hit_alloc"
    /\ UNCHANGED <<cache, active_stream_count, notified, cmd, stream, entry,
                   entry_mutex, client_rest>>

\* heap_caps_calloc of the stream structure: the cache stream, or the way
\* to the rollback
api_hit_alloc ==
    /\ ppc = "hit_alloc"
    /\ \E alloc_ok \in BOOLEAN :
         IF alloc_ok
         THEN /\ stream' = [type |-> "CACHE", filename |-> cmd.filename,
                            entry |-> entry, position |-> 0, eof_reached |-> FALSE]
              /\ entry' = -1
              /\ cmd' = NoCmd
              /\ ppc' = "loop"
         ELSE /\ ppc' = "hit_rollback"
              /\ UNCHANGED <<stream, entry, cmd>>
    /\ UNCHANGED <<cache, cache_mutex, active_stream_count, notified, entry_mutex,
                   client_rest>>

\* the failed allocation that returns without the rollback
api_hit_no_rollback ==
    /\ ppc = "hit_rollback"
    /\ entry' = -1
    /\ cmd' = NoCmd
    /\ ppc' = "loop"
    /\ UNCHANGED <<cache, cache_mutex, active_stream_count, notified, stream,
                   entry_mutex, client_rest>>

\* the rollback: entry->ref_count-- under the entry's mutex, then
\* ESP_ERR_NO_MEM
api_hit_rollback ==
    /\ ppc = "hit_rollback"
    /\ entry_mutex[entry] = "free"
    /\ cache' = [cache EXCEPT ![entry].ref_count = (@ + 255) % 256]
    /\ entry' = -1
    /\ cmd' = NoCmd
    /\ ppc' = "loop"
    /\ UNCHANGED <<cache_mutex, active_stream_count, notified, stream, entry_mutex,
                   client_rest>>

\* a miss that goes on to the file with the cache mutex still held
api_lookup_miss_locked ==
    /\ ppc = "open_lookup"
    /\ cache_lookup(cache, cmd.filename) < 0
    /\ ppc' = "miss_open"
    /\ UNCHANGED <<cache, cache_mutex, active_stream_count, notified, cmd, stream,
                   entry, entry_mutex, client_rest>>

\* audio_provider_open_stream, cache miss: xSemaphoreGive(cache_mutex)
api_lookup_miss ==
    /\ ppc = "open_lookup"
    /\ cache_lookup(cache, cmd.filename) < 0
    /\ cache_mutex' = "free"
    /\ ppc' = "miss_open"
    /\ UNCHANGED <<cache, active_stream_count, notified, cmd, stream, entry,
                   entry_mutex, client_rest>>

\* a miss path that counts the stream before the file is open
api_miss_open_counted ==
    /\ ppc = "miss_open"
    /\ active_stream_count' = active_stream_count + 1
    /\ \E open_ok \in BOOLEAN :
         stream' = IF open_ok
                   THEN [type |-> "WAV_FILE", filename |-> cmd.filename,
                         entry |-> -1, position |-> 0, eof_reached |-> FALSE]
                   ELSE stream
    /\ cmd' = NoCmd
    /\ ppc' = "loop"
    /\ UNCHANGED <<cache, cache_mutex, notified, entry, entry_mutex, client_rest>>

\* the miss path after the mutex: fopen, parse_wav_header and the stream
\* structure, each of which may fail, then __atomic_add_fetch on the count
api_miss_open ==
    /\ ppc = "miss_open"
    /\ \E open_ok \in BOOLEAN :
         IF open_ok
         THEN /\ stream' = [type |-> "WAV_FILE", filename |-> cmd.filename,
                            entry |-> -1, position |-> 0, eof_reached |-> FALSE]
              /\ active_stream_count' = active_stream_count + 1
         ELSE UNCHANGED <<stream, active_stream_count>>
    /\ cmd' = NoCmd
    /\ ppc' = "loop"
    /\ UNCHANGED <<cache, cache_mutex, notified, entry, entry_mutex, client_rest>>

\* audio_provider_read_stream: the end of the data sets eof_reached; a
\* cache stream copies a chunk and refreshes the timestamp under the
\* entry's mutex, a file stream reads a chunk from storage
api_read_stream ==
    /\ ppc = "loop"
    /\ stream # NoStream
    /\ ~stream.eof_reached
    /\ stream.type = "CACHE" => entry_mutex[stream.entry] = "free"
    /\ IF stream_remaining(cache, stream) = 0
       THEN /\ stream' = [stream EXCEPT !.eof_reached = TRUE]
            /\ UNCHANGED cache
       ELSE /\ stream' = [stream EXCEPT !.position = @ + 1]
            /\ cache' = read_touch(cache, stream, tick)
    /\ UNCHANGED <<cache_mutex, active_stream_count, notified, ppc, cmd, entry,
                   entry_mutex, client_rest>>

\* audio_provider_close_stream of a cache stream: the reference goes back
\* under the entry's mutex, and the stream is freed
api_close_cache ==
    /\ ppc = "loop"
    /\ stream.type = "CACHE"
    /\ entry_mutex[stream.entry] = "free"
    /\ cache' = close_cache_ref(cache, stream)
    /\ stream' = NoStream
    /\ UNCHANGED <<cache_mutex, active_stream_count, notified, ppc, cmd, entry,
                   entry_mutex, client_rest>>

\* audio_provider_close_stream of a file stream: fclose and
\* __atomic_sub_fetch on the count
api_close_file ==
    /\ ppc = "loop"
    /\ stream.type = "WAV_FILE"
    /\ active_stream_count' = active_stream_count - 1
    /\ ppc' = "close_notify"
    /\ UNCHANGED <<cache, cache_mutex, notified, cmd, stream, entry, entry_mutex,
                   client_rest>>

\* a close that wakes the preload task only if it is blocked at that
\* moment: the signal of a condition variable, which is not kept
api_close_signal ==
    /\ ppc = "close_notify"
    /\ notified' = IF active_stream_count = 0 /\ tpc = "read_blocked"
                   THEN TRUE
                   ELSE notified
    /\ stream' = NoStream
    /\ ppc' = "loop"
    /\ UNCHANGED <<cache, cache_mutex, active_stream_count, cmd, entry,
                   entry_mutex, client_rest>>

\* new_count == 0: xTaskNotifyGive(preload_task_handle); then the stream
\* structure is freed
api_close_notify ==
    /\ ppc = "close_notify"
    /\ notified' = IF active_stream_count = 0 THEN TRUE ELSE notified
    /\ stream' = NoStream
    /\ ppc' = "loop"
    /\ UNCHANGED <<cache, cache_mutex, active_stream_count, cmd, entry,
                   entry_mutex, client_rest>>

\* ---- the preload task, cache_read_pcm_data and cache_store_entry
\* statement by statement

\* the test of while (provider->active_stream_count > 0)
cache_read_test ==
    /\ tpc = "read_loop"
    /\ tpc' = IF active_stream_count > 0 THEN "read_wait" ELSE "read_fread"
    /\ UNCHANGED <<provider_vars, player_vars, item, total_bytes, slot, victim,
                   buffer, total_read, tick, other_vars>>

\* the call of ulTaskNotifyTake(pdTRUE, portMAX_DELAY): a pending
\* notification is cleared and the call returns to the test of the while;
\* without one the task blocks
cache_read_notify_take ==
    /\ tpc = "read_wait"
    /\ notified' = FALSE
    /\ tpc' = IF notified THEN "read_loop" ELSE "read_blocked"
    /\ UNCHANGED <<cache, used_cache_bytes, cache_mutex, active_stream_count,
                   preload_queue, player_vars, item, total_bytes, slot, victim,
                   buffer, total_read, tick, other_vars>>

\* the task blocked in ulTaskNotifyTake is woken by a notification, which
\* it clears
cache_read_notify_wake ==
    /\ tpc = "read_blocked"
    /\ notified
    /\ notified' = FALSE
    /\ tpc' = "read_loop"
    /\ UNCHANGED <<cache, used_cache_bytes, cache_mutex, active_stream_count,
                   preload_queue, player_vars, item, total_bytes, slot, victim,
                   buffer, total_read, tick, other_vars>>

\* one fread of at most WAV_CHUNK_SIZE bytes; n = 0 leaves the loop with a
\* short total
cache_read_fread ==
    /\ tpc = "read_fread"
    /\ \E n \in {0, 1} :
         /\ total_read' = total_read + n
         /\ tpc' = IF n = 0 THEN "unreserve"
                   ELSE IF total_read + n = total_bytes THEN "store"
                   ELSE "read_loop"
    /\ UNCHANGED <<provider_vars, player_vars, item, total_bytes, slot, victim,
                   buffer, tick, other_vars>>

\* cache_store_entry with the result of strdup(filename), which is NULL when
\* the heap is exhausted and is stored as it is
cache_store_strdup ==
    /\ tpc = "store"
    /\ cache_mutex = "free"
    /\ \E dup_ok \in BOOLEAN :
         cache' = [cache EXCEPT ![slot] =
                     [filename |-> IF dup_ok THEN item ELSE NULL,
                      buffer |-> buffer, buf_size |-> total_bytes,
                      total_samples |-> FileChunks(item), ref_count |-> 0,
                      last_access_tick |-> tick]]
    /\ preload_return
    /\ UNCHANGED <<used_cache_bytes, cache_mutex, active_stream_count,
                   preload_queue, notified, player_vars, tick, other_vars>>

\* the calls of the player task on the provider
provider_client ==
    \/ api_open_stream
    \/ open_stream_take
    \/ api_lookup_miss
    \/ api_miss_open
    \/ api_hit_take
    \/ api_hit_ref
    \/ api_hit_give
    \/ api_hit_alloc
    \/ api_hit_rollback
    \/ api_read_stream
    \/ api_close_cache
    \/ api_close_file
    \/ api_close_notify

\* the preload task
provider_cache_task ==
    \/ cache_task_receive
    \/ cache_file_check
    \/ cache_parse_wav_file
    \/ cache_reserve_take
    \/ cache_reserve_and_alloc
    \/ cache_read_open
    \/ cache_read_test
    \/ cache_read_notify_take
    \/ cache_read_notify_wake
    \/ cache_read_fread
    \/ cache_unreserve
    \/ cache_store_strdup

ProviderNext ==
    \/ api_preload
    \/ audio_provider_flush_preload_queue
    \/ provider_client
    \/ provider_cache_task

SpecProvider == ProviderInit /\ [][ProviderNext]_vars

(***************************************************************************)
(* Properties of the provider's API                                        *)
(***************************************************************************)
\* the PCM data of f is larger than half of the PSRAM
oversized(f) == FileChunks(f) > CACHE_ITEM_MAXSIZE

\* an oversized file is never in the cache table, and the preload task
\* never gets past the size check with it
C21_Rejected ==
    /\ \A i \in Slots : cache[i].filename # NULL => ~oversized(cache[i].filename)
    /\ (item # NULL /\ oversized(item)) => tpc \in {"check", "parse"}

\* while the preload task works on an oversized file no entry leaves the
\* table and the budget stays; the size check ends cache_file_internal.
\* The request itself is answered when it is queued: ESP_OK unless the
\* queue is full.
C21_Step ==
    /\ (item # NULL /\ oversized(item)) =>
          /\ \A i \in Slots : cache'[i].filename = cache[i].filename
          /\ \A i \in Slots : cache'[i].buffer = cache[i].buffer
          /\ used_cache_bytes' = used_cache_bytes
          /\ (tpc = "parse" /\ tpc' # "parse") => (tpc' = "idle" /\ item' = NULL)
    /\ preload_ret' # preload_ret =>
          (preload_ret'.ret = "ESP_OK" <=> Len(preload_queue) < PreloadQueueLen)

\* C21 (amended): a preload request for a file whose PCM size exceeds half
\* of the PSRAM is queued like any other (ESP_OK, or ESP_ERR_NO_MEM only
\* when the queue is full); when the preload task takes it,
\* cache_file_internal gives up at the size check: the file never appears
\* in the cache table and no entry is evicted because of it.
C21_OversizedRejected == [](C21_Rejected) /\ [][C21_Step]_vars

\* the oversized file, accepted with ESP_OK, is at the size check with the
\* cache filled up to its budget
C21_Witness ==
    /\ tpc = "parse"
    /\ item = "d.wav"
    /\ preload_ret = [filename |-> "d.wav", ret |-> "ESP_OK"]
    /\ used_cache_bytes = MaxCacheBytes
    /\ \E i \in Slots : cache[i].filename # NULL

\* C21: requesting the preload of a file whose PCM size exceeds half of the
\* cache-capable memory returns NoMemory to the requester.
C21_NoMemoryToRequester ==
    oversized(preload_ret.filename) => preload_ret.ret = "ESP_ERR_NO_MEM"

\* ---- the pause of the preload task

\* the preload task is at a statement that reads from storage: fopen and
\* the header in cache_parse_wav_file, fopen and fread in cache_read_pcm_data
preload_at_storage == tpc \in {"parse", "read", "read_fread"}

\* what the pause gives: the task goes to an fread only from a test that
\* saw no file stream, a test that sees one sends it to the wait, and it
\* leaves the wait only with a notification, back to the test
C22_Step ==
    /\ (tpc # "read_fread" /\ tpc' = "read_fread") =>
          (tpc = "read_loop" /\ active_stream_count = 0)
    /\ (tpc = "read_loop" /\ active_stream_count > 0) =>
          tpc' \in {"read_loop", "read_wait"}
    /\ (tpc \in {"read_wait", "read_blocked"}
          /\ tpc' \notin {"read_wait", "read_blocked"}) =>
          (notified /\ tpc' = "read_loop")

C22_TestedBeforeRead == [][C22_Step]_vars

\* C22: in every interleaving of the player task and the preload task,
\* while a file stream is open (active_stream_count > 0) the preload task
\* does not read from storage.
C22_NoReadWhileActive == preload_at_storage => active_stream_count = 0

\* ---- the count of file streams

\* the file streams that are open: the player's stream, until its close
\* has taken it off the count
open_file_streams ==
    IF stream.type = "WAV_FILE" /\ ppc # "close_notify" THEN 1 ELSE 0

C24_Counted ==
    /\ active_stream_count = open_file_streams
    /\ active_stream_count >= 0

\* an open that fails installs no stream and leaves the count; the steps of
\* a cache hit, and every step taken with a cache stream open, leave it
C24_Step ==
    /\ (ppc = "miss_open" /\ stream' = stream) =>
          active_stream_count' = active_stream_count
    /\ (ppc \in {"hit_ref", "hit_give", "hit_alloc", "hit_rollback"}) =>
          active_stream_count' = active_stream_count
    /\ (stream.type = "CACHE" \/ stream'.type = "CACHE") =>
          active_stream_count' = active_stream_count

\* C24: after any sequence of open_stream and close_stream calls,
\* active_stream_count is the number of open file streams; it is never
\* negative, a failed open leaves it unchanged, and opening or closing a
\* cache stream never changes it.
C24_ActiveStreamAccounting == [](C24_Counted) /\ [][C24_Step]_vars

\* a file stream is open and counted after an earlier one was closed (the
\* notification of that close is still pending)
C24_Witness ==
    /\ stream.type = "WAV_FILE"
    /\ ppc = "loop"
    /\ active_stream_count = 1
    /\ notified

\* ---- the reference counts

\* the cache streams that are open on slot i
open_cache_streams(i) ==
    IF stream.type = "CACHE" /\ stream.entry = i THEN 1 ELSE 0

\* the player task is in no call of the provider
no_call_in_progress == ppc = "loop"

C25_Counted ==
    /\ no_call_in_progress =>
          \A i \in Slots : cache[i].ref_count = open_cache_streams(i)
    /\ \A i \in Slots : cache[i].ref_count \in {0, 1}

\* the failed allocation of a hit gives back the reference it took and
\* returns no stream; the close of a cache stream gives back one reference
\* of an entry that has one
C25_Step ==
    /\ (ppc = "hit_rollback" /\ ppc' # ppc) =>
          /\ cache[entry].ref_count > 0
          /\ cache'[entry].ref_count = cache[entry].ref_count - 1
          /\ stream' = NoStream
    /\ (stream.type = "CACHE" /\ stream' = NoStream) =>
          /\ cache[stream.entry].ref_count > 0
          /\ cache'[stream.entry].ref_count = cache[stream.entry].ref_count - 1

\* C25: for every cache entry, once no open or close call is in progress,
\* ref_count is the number of open cache streams on that entry; a cache-hit
\* open whose stream allocation fails takes back the reference it added
\* before it returns, and close_stream never takes ref_count below 0.
C25_RefCountAccounting == [](C25_Counted) /\ [][C25_Step]_vars

\* a cache hit has added its reference and the allocation of the stream
\* has failed: the rollback is the next statement
C25_Witness ==
    /\ ppc = "hit_rollback"
    /\ stream = NoStream
    /\ cache[entry].ref_count = 1
    /\ cache_mutex = "preload"

\* ---- the order of the locks

\* the preload task is in a file operation or in its pause
preload_in_io ==
    tpc \in {"parse", "read", "read_loop", "read_wait", "read_blocked",
             "read_fread"}

\* the player task is in the file operations of a miss (fopen, the header,
\* fclose) or between a file stream's fclose and the notification
player_in_io == ppc \in {"miss_open", "close_notify"}

\* whoever takes the cache mutex holds no entry mutex at that moment
C29_Step ==
    (cache_mutex' # cache_mutex /\ cache_mutex' # "free") =>
       \A i \in Slots : entry_mutex[i] # cache_mutex'

\* the cache mutex is not held across a file operation or the pause
C29_NotAcrossIO ==
    /\ cache_mutex = "preload" => ~preload_in_io
    /\ cache_mutex = "player" => ~player_in_io
    /\ \A i \in Slots : entry_mutex[i] = "player" => ~player_in_io

\* the holder of a lock can always take its next step, whatever the other
\* task does: nobody holds a lock while waiting for one the other has
C29_HolderRuns ==
    /\ cache_mutex = "preload" => ENABLED provider_cache_task
    /\ cache_mutex = "player" => ENABLED provider_client
    /\ \A i \in Slots : entry_mutex[i] # "free" =>
          (entry_mutex[i] = "player" /\ ENABLED api_hit_ref)

\* C29: no task acquires the cache-table mutex while it holds a per-entry
\* mutex, the cache-table mutex is never held during file I/O or while the
\* preload task is paused, and so no interleaving of the player task, the
\* preload task and the preload and flush callers deadlocks on these locks.
C29_LockOrdering ==
    [](C29_NotAcrossIO /\ C29_HolderRuns) /\ [][C29_Step]_vars

\* the player task holds the cache mutex and an entry's mutex while the
\* preload task, back from the header of another file, waits for the cache
\* mutex to reserve a slot
C29_Witness ==
    /\ ppc = "hit_ref"
    /\ cache_mutex = "player"
    /\ entry_mutex[entry] = "player"
    /\ tpc = "reserve"

\* ---- the slots of the cache table

\* the half that holds: a slot with a filename has its buffer
C30_NamedHasBuffer ==
    \A i \in Slots : cache[i].filename # NULL => cache[i].buffer

\* C30: in every reachable state observed with the cache-table mutex free,
\* each slot has a PCM buffer iff it has a filename, also after failed
\* preloads and after allocation failures while an entry is committed.
C30_SlotInvariant ==
    cache_mutex = "free" =>
       \A i \in Slots : cache[i].buffer <=> cache[i].filename # NULL

\* ---------------------------------------------------------------------
\* The second press of a locked play_lock button

\* what the second press does: the binding is looked up and executed
\* again, the file is played from its start and nothing is stopped
C26_SecondPressRestarts ==
    cycle = 4 =>
       /\ executed.type = "PLAY_LOCK"
       /\ mapper_out = <<Call("player_play", executed.filename),
                         Call("notify_action_executed", "PLAY_LOCK")>>
       /\ button_fsm_state = "PLAY_LOCK_PENDING"

\* C26: for a button bound to play_lock, after press, long press (lock)
\* and release, the next press of that same button stops playback.
C26_SecondPressStops == cycle = 4 => stops(mapper_out)

\* ---------------------------------------------------------------------
\* cache_find_lru_victim on the tables the cache can hold

\* timestamps of an entry: xTaskGetTickCount() at its last access, from
\* the first ticks to the last value of the counter
LruTicks == {0, 1, 2, UINT32_MAX - 1, UINT32_MAX}

\* the file a slot holds in these tables
LruFile(i) == IF i = 0 THEN "a.wav" ELSE "b.wav"

\* slot i holding its file, last accessed at tick t, with r references
LruEntry(i, t, r) ==
    [filename |-> LruFile(i), buffer |-> TRUE, buf_size |-> 1,
     total_samples |-> 1, ref_count |-> r, last_access_tick |-> t]

\* the player's stream: none, or a cache stream on slot i
LruStreams ==
    {NoStream} \cup
    {[type |-> "CACHE", filename |-> LruFile(i), entry |-> i, position |-> 0,
      eof_reached |-> FALSE] : i \in Slots}

\* the bytes of the buffers in slots i and up
RECURSIVE buf_sum(_, _)
buf_sum(c, i) ==
    IF i >= CACHE_ENTRY_COUNT THEN 0 ELSE c[i].buf_size + buf_sum(c, i + 1)

\* the tables: every slot empty or committed, referenced exactly by the
\* player's stream, the budget counting the committed buffers
lru_init ==
    /\ stream \in LruStreams
    /\ cache \in [Slots -> {EmptyEntry}
                    \cup UNION {{LruEntry(i, t, r) : t \in LruTicks, r \in {0, 1}}
                                : i \in Slots}]
    /\ \A i \in Slots :
          /\ cache[i].filename \in {NULL, LruFile(i)}
          /\ cache[i].ref_count = open_cache_streams(i)
    /\ used_cache_bytes = buf_sum(cache, 0)
    /\ cache_mutex = "preload"
    /\ active_stream_count = 0
    /\ preload_queue = <<>>
    /\ notified = FALSE
    /\ ppc = "loop"
    /\ cmd = NoCmd
    /\ cmd_queue = <<>>
    /\ entry = -1
    /\ sd_gpio = FALSE
    /\ last_format = 48000
    /\ last_progress_tick = 0
    /\ events = <<>>
    /\ tpc = "reserve_loop"
    /\ item = "c.wav"
    /\ total_bytes = 1
    /\ slot = -1
    /\ victim = -1
    /\ buffer = FALSE
    /\ total_read = 0
    /\ tick = 0

LruInit ==
    lru_init /\ read_idle /\ button_idle /\ encoder_idle /\ mapper_idle /\ parse_idle
    /\ entry_idle /\ sink_idle /\ volume_idle /\ scale_idle /\ api_init
    /\ throttle_idle /\ sustain_idle

\* int victim = cache_find_lru_victim(provider), in the loop of
\* cache_reserve_and_alloc
lru_find_victim ==
    /\ tpc = "reserve_loop"
    /\ victim' = cache_find_lru_victim(cache)
    /\ tpc' = "victim"
    /\ UNCHANGED <<provider_vars, player_vars, item, total_bytes, slot, buffer,
                   total_read, tick, other_vars>>

\* victim < 0: the mutex is given back and ESP_ERR_NO_MEM returned;
\* otherwise free_cache_entry(victim) and the next turn of the loop
lru_evict ==
    /\ tpc = "victim"
    /\ IF victim < 0
       THEN /\ cache_mutex' = "free"
            /\ tpc' = "idle"
            /\ UNCHANGED <<cache, used_cache_bytes, slot>>
       ELSE /\ cache' = free_cache_entry(cache, victim)
            /\ used_cache_bytes' = used_cache_bytes - cache[victim].buf_size
            /\ slot' = IF slot < 0 THEN victim ELSE slot
            /\ tpc' = "reserve_loop"
            /\ UNCHANGED cache_mutex
    /\ UNCHANGED <<active_stream_count, preload_queue, notified, player_vars, item,
                   total_bytes, victim, buffer, total_read, tick, other_vars>>

LruNext == lru_find_victim \/ lru_evict

SpecLru == LruInit /\ [][LruNext]_vars

\* the occupied slots without a reference
lru_candidates(c) == {i \in Slots : c[i].filename # NULL /\ c[i].ref_count = 0}

\* the lowest index among the candidates with the smallest timestamp
lru_oldest(c) ==
    CHOOSE i \in lru_candidates(c) :
       \A j \in lru_candidates(c) :
          \/ c[i].last_access_tick < c[j].last_access_tick
          \/ (c[i].last_access_tick = c[j].last_access_tick /\ i <= j)

\* what the scan does return: a candidate or -1; -1 when there is no
\* candidate; and the oldest candidate with the lowest index as soon as
\* one candidate has a timestamp below UINT32_MAX
C27_BelowMax ==
    tpc = "victim" =>
       /\ victim \in lru_candidates(cache) \cup {-1}
       /\ lru_candidates(cache) = {} => victim = -1
       /\ (\E i \in lru_candidates(cache) : cache[i].last_access_tick < UINT32_MAX)
             => victim = lru_oldest(cache)

\* C27: cache_find_lru_victim returns the lowest-index slot among the
\* occupied slots with ref_count = 0 whose last_access_tick is minimal, and
\* -1 only if there is no occupied slot with ref_count = 0, for every tick
\* value an entry can carry.
C27_LruVictim ==
    tpc = "victim" =>
       victim = IF lru_candidates(cache) = {} THEN -1 ELSE lru_oldest(cache)

\* ---------------------------------------------------------------------
\* Giving up in cache_reserve_and_alloc

\* the step is the return of ESP_ERR_NO_MEM from the reserve loop
reserve_gives_up == tpc = "reserve_loop" /\ tpc' = "idle"

\* with the timestamps the tick counter gives before it comes near its
\* wrap, the loop gives up only with no unreferenced entry left, and it
\* leaves the table and the budget as they are
C38_Step ==
    reserve_gives_up =>
        /\ lru_candidates(cache) = {}
        /\ UNCHANGED <<cache, used_cache_bytes>>

C38_EvictedFirst == [][C38_Step]_vars

\* after giving up, an unreferenced entry that is left carries UINT32_MAX
C38_OnlyAtMax ==
    tpc = "idle" =>
        \A i \in lru_candidates(cache) : cache[i].last_access_tick = UINT32_MAX

\* C38: cache_reserve_and_alloc returns NoMemory only when no occupied slot
\* with ref_count = 0 remains: a preload that fails in the reserve step has
\* evicted every unreferenced entry, and the entries with ref_count > 0 are
\* the only ones left in the cache.
C38_EvictionBeforeGivingUp ==
    tpc = "idle" =>
        \A i \in Slots : cache[i].filename # NULL => cache[i].ref_count > 0

\* ---------------------------------------------------------------------
\* The filenames of the cache table

\* the preload task is at the check of cache_file_internal with a file the
\* table holds
already_cached == tpc = "check" /\ cache_lookup(cache, item) >= 0

\* no two occupied slots hold the same filename
C40_Unique ==
    \A i, j \in Slots :
        (i # j /\ cache[i].filename # NULL /\ cache[j].filename # NULL)
            => cache[i].filename # cache[j].filename

C40_Step ==
    \* the request for a cached file returns with the table as it is
    /\ (already_cached /\ tpc' # tpc) =>
          /\ tpc' = "idle"
          /\ UNCHANGED <<cache, used_cache_bytes>>
    \* a slot is filled with a file that no slot holds
    /\ \A i \in Slots :
          (cache[i].filename = NULL /\ cache'[i].filename # NULL) =>
              cache_lookup(cache, cache'[i].filename) < 0

\* C40: after any sequence of preload requests, repeated ones included,
\* evictions and concurrent stream opens, no two occupied cache slots hold
\* the same filename; preloading an already cached file changes nothing in
\* the cache table.
C40_UniqueKeys == [](C40_Unique) /\ [][C40_Step]_vars

\* both slots are occupied and the preload of one of their files is at the
\* check, while the player plays the other from the cache
C40_Witness ==
    /\ already_cached
    /\ \A i \in Slots : cache[i].filename # NULL
    /\ stream.type = "CACHE"
    /\ stream.filename # item

\* ---------------------------------------------------------------------
\* Teardown: player_deinit called while the player task runs

\* the player has not been torn down
teardown_alive == ppc \notin {"deinit", "abort"}

\* audio_provider_close_stream as player_deinit's close_stream calls it,
\* from the caller's task: the table and the count after it
deinit_close_cache == close_cache_ref(cache, stream)

deinit_close_count ==
    IF stream.type = "WAV_FILE" THEN active_stream_count - 1
    ELSE active_stream_count

\* player_deinit, from a task other than the player task, which is at any
\* statement: close_stream if player->stream is set; cleanup_player_state
\* deletes the player task; audio_provider_deinit calls free_cache_entry on
\* every slot with a filename, whose assert(entry->ref_count == 0) aborts
\* the program if a reference is left
player_deinit ==
    /\ teardown_alive
    /\ stream' = NoStream
    /\ active_stream_count' = deinit_close_count
    /\ notified' = IF stream.type = "WAV_FILE" /\ deinit_close_count = 0
                   THEN TRUE ELSE notified
    /\ IF \E i \in Slots : /\ deinit_close_cache[i].filename # NULL
                           /\ deinit_close_cache[i].ref_count > 0
       THEN /\ ppc' = "abort"
            /\ cache' = deinit_close_cache
            /\ UNCHANGED used_cache_bytes
       ELSE /\ ppc' = "deinit"
            /\ cache' = [i \in Slots |->
                           IF deinit_close_cache[i].filename # NULL
                           THEN EmptyEntry ELSE deinit_close_cache[i]]
            /\ used_cache_bytes' = used_cache_bytes - buf_sum(
                   [i \in Slots |-> IF deinit_close_cache[i].filename # NULL
                                    THEN deinit_close_cache[i] ELSE EmptyEntry], 0)
    /\ UNCHANGED <<cache_mutex, preload_queue, cmd, cmd_queue, entry, sd_gpio,
                   last_format, last_progress_tick, events, preload_vars, tick,
                   other_vars>>

\* the provider in use until the teardown
TeardownNext ==
    \/ (teardown_alive /\ ProviderNext)
    \/ player_deinit

SpecTeardown == ProviderInit /\ [][TeardownNext]_vars

\* on the eviction path the assertion holds: an entry that a step of the
\* preload task frees has no reference; and a teardown with the player task
\* between two calls frees every entry
C28_EvictionAssert ==
    /\ (tpc = "reserve_loop" /\ ppc' = ppc) =>
          \A i \in Slots :
             (cache[i].filename # NULL /\ cache'[i].filename = NULL) =>
                cache[i].ref_count = 0
    /\ (ppc = "loop" /\ ppc' \in {"deinit", "abort"}) => ppc' = "deinit"

C28_EvictionAsserted == [][C28_EvictionAssert]_vars

\* C28: the assertion ref_count == 0 in free_cache_entry holds on every
\* call in every reachable state, on the eviction path and at provider
\* teardown, whatever streams are open at that moment.
C28_AssertHolds == ppc # "abort"

\* ---------------------------------------------------------------------
\* The resume of the preload task

\* the scheduler lets the preload task run when it can, and a close that
\* has taken its stream off the count goes on to its notification
SpecResume ==
    /\ ProviderInit
    /\ [][ProviderNext]_vars
    /\ WF_vars(provider_cache_task)
    /\ WF_vars(api_close_notify)

\* the preload task is paused: it has seen a file stream and is at, or
\* blocked in, ulTaskNotifyTake
paused == tpc \in {"read_wait", "read_blocked"}

\* once the close that brought the count to 0 has returned, the paused
\* task has its notification
C23_Notified ==
    (paused /\ active_stream_count = 0 /\ ppc # "close_notify") => notified

\* the paused task goes on to an fread, unless a file stream is opened
\* again before it has tested the count
C23_Resumes ==
    (paused /\ active_stream_count = 0)
       ~> (tpc = "read_fread" \/ active_stream_count > 0)

\* C23: if the preload task is paused because active_stream_count > 0,
\* then once the last file stream is closed and the count is 0 the task is
\* notified and, under fair scheduling, resumes reading, for every order
\* of the test of the count, the wait and the close, a close between the
\* test and the wait included.
C23_PreloadResume == [](C23_Notified) /\ C23_Resumes

\* the close came between the test and the wait: the task has seen a file
\* stream, has not yet called ulTaskNotifyTake, and the count is already 0
\* with the notification pending
C23_Witness ==
    /\ tpc = "read_wait"
    /\ active_stream_count = 0
    /\ ppc = "loop"
    /\ stream = NoStream
    /\ notified

\* ---------------------------------------------------------------------
\* The amplifier enable line (set_i2s_sd_gpio)

\* the player task is inside cmd_play, past the teardown
in_cmd_play == ppc \in {"open", "open_lookup", "open_hit", "open_miss"}

\* at the command queue the line is asserted iff a stream is open, and it
\* is asserted while a chunk is sent
C35_AtQueue ==
    /\ ppc = "loop" => (sd_gpio <=> stream # NoStream)
    /\ ppc = "chunk" => (sd_gpio /\ stream # NoStream)

C35_Step ==
    \* a Play that replaces a stream tears it down with the line asserted
    /\ (ppc = "loop" /\ ppc' = "open" /\ stream # NoStream) => sd_gpio'
    \* the open leaves the line alone, and the Started comes with it asserted
    /\ (in_cmd_play /\ ppc' \notin {"loop", "chunk"}) => sd_gpio' = sd_gpio
    /\ (in_cmd_play /\ ppc' = "chunk") => (sd_gpio' /\ stream' # NoStream)
    \* a Play that fails ends with the line de-asserted and an Error
    /\ (in_cmd_play /\ ppc' = "loop") =>
          ~sd_gpio' /\ events' = <<Event("ERROR", NULL)>>
    \* end of stream, an immediate Stop, a transfer error
    /\ (ppc \in {"loop", "chunk"} /\ stream # NoStream /\ stream' = NoStream
          /\ ppc' = "loop") => ~sd_gpio'

RECURSIVE occupied_sum(_, _)
occupied_sum(c, i) ==
    IF i >= CACHE_ENTRY_COUNT THEN 0
    ELSE (IF c[i].filename # NULL THEN c[i].buf_size ELSE 0) + occupied_sum(c, i + 1)

\* the reservation of the preload that is between cache_reserve_and_alloc
\* and its commit or its unreserve
in_flight ==
    IF tpc \in {"read", "read_loop", "read_wait", "read_blocked", "read_fread",
                "unreserve", "store"}
    THEN total_bytes ELSE 0

\* the budget is never exceeded, and a reservation is made only within it
C31_WithinBudget ==
    /\ used_cache_bytes >= 0
    /\ used_cache_bytes <= MaxCacheBytes
    /\ used_cache_bytes >= occupied_sum(cache, 0) + in_flight

\* a preload whose read failed gives back exactly what it reserved and
\* leaves the table; an eviction gives back the victim's buf_size
C31_Step ==
    /\ (tpc = "unreserve" /\ tpc' # tpc) =>
          /\ used_cache_bytes' = used_cache_bytes - total_bytes
          /\ cache' = cache
    /\ (tpc = "reserve_loop" /\ tpc' = tpc) =>
          used_cache_bytes' - occupied_sum(cache', 0)
             = used_cache_bytes - occupied_sum(cache, 0)

C31_GivenBack == [](C31_WithinBudget) /\ [][C31_Step]_vars

\* C31: after any sequence of preloads, evictions and failed preloads,
\* used_cache_bytes never exceeds max_cache_bytes and is the sum of buf_size
\* over the occupied slots plus the one reservation in flight; a preload
\* whose read fails gives its reservation back in full.
C31_ByteBudget ==
    /\ used_cache_bytes <= MaxCacheBytes
    /\ used_cache_bytes = occupied_sum(cache, 0) + in_flight

\* ---------------------------------------------------------------------
\* The throttle of the Progress events: player_task, one iteration of its
\* loop at a time, the provider reduced to the length of the stream

\* the tick counter is followed up to this value
MaxProgressTick == 3

\* the commands an iteration can receive; none only while a stream is open
ThrottleCommands == {"none", "play", "stop_now", "stop_later"}

\* cmd_play: the stream after it, when the open and configure_stream
\* succeed (ok) or one of them fails
throttle_play(f, ok) ==
    IF ok THEN [type |-> "WAV_FILE", filename |-> f, entry |-> -1,
                position |-> 0, eof_reached |-> FALSE]
    ELSE NoStream

\* the stream after the command of this iteration
throttle_stream(c, f, ok) ==
    IF c = "play" THEN throttle_play(f, ok)
    ELSE IF c = "stop_now" THEN NoStream
    ELSE stream

\* last_progress_tick after the command: cmd_play resets it before STARTED
throttle_last(c, ok) ==
    IF c = "play" /\ ok THEN 0 ELSE last_progress_tick

\* the last event after the command
throttle_event(c, f, ok) ==
    IF c = "play" THEN (IF ok THEN Emit(events, Event("STARTED", f))
                        ELSE Emit(events, Event("ERROR", NULL)))
    ELSE IF c = "stop_now" /\ stream # NoStream
    THEN Emit(events, Event("STOPPED", NULL))
    ELSE events

\* the amplifier after the iteration: configure_stream enables it, every
\* close_stream of the iteration's end disables it, a Stop without a stream
\* leaves it
throttle_amp(c, s) ==
    IF s # NoStream THEN TRUE
    ELSE IF c \in {"stop_now", "stop_later"} /\ stream = NoStream THEN sd_gpio
    ELSE FALSE

\* the Stopped and Error events counted after a Started
MaxClosers == 2

\* the events of an iteration whose cmd_stop closes without testing the stream
throttle_emitted_any_stop(c, ok, io, s, last) ==
    (IF c = "play"
     THEN (IF stream # NoStream THEN <<"STOPPED">> ELSE <<>>)
              \o (IF ok THEN <<"STARTED">> ELSE <<"ERROR">>)
     ELSE IF c = "stop_now" THEN <<"STOPPED">>
     ELSE <<>>)
    \o (IF s = NoStream THEN <<>>
        ELSE IF io = "error" THEN <<"ERROR">>
        ELSE IF s.position = FileChunks(s.filename) THEN <<"STOPPED">>
        ELSE IF tick - last >= ProgressInterval THEN <<"PROGRESS">>
        ELSE <<>>)

\* the names of the events one iteration hands to event_cb, in order: those
\* of the command, then that of the chunk
throttle_emitted(c, ok, io, s, last) ==
    (IF c = "play"
     THEN (IF stream # NoStream THEN <<"STOPPED">> ELSE <<>>)
              \o (IF ok THEN <<"STARTED">> ELSE <<"ERROR">>)
     ELSE IF c = "stop_now" /\ stream # NoStream THEN <<"STOPPED">>
     ELSE <<>>)
    \o (IF s = NoStream THEN <<>>
        ELSE IF io = "error" THEN <<"ERROR">>
        ELSE IF s.position = FileChunks(s.filename) THEN <<"STOPPED">>
        ELSE IF tick - last >= ProgressInterval THEN <<"PROGRESS">>
        ELSE <<>>)

\* the sums after one more event
protocol_event(p, name) ==
    CASE name = "STARTED" ->
            [p EXCEPT !.open = TRUE, !.closers = 0,
                      !.between = IF p.closers >= 0 THEN p.closers ELSE p.between]
      [] name = "STOPPED" ->
            [p EXCEPT !.open = FALSE,
                      !.closers = IF @ < 0 THEN @ ELSE Min(@ + 1, MaxClosers),
                      !.orphan = @ \/ ~p.open]
      [] name = "ERROR" ->
            [p EXCEPT !.open = FALSE,
                      !.closers = IF @ < 0 THEN @ ELSE Min(@ + 1, MaxClosers)]
      [] OTHER -> [p EXCEPT !.orphan = @ \/ ~p.open]

RECURSIVE protocol_events(_, _)
protocol_events(p, names) ==
    IF names = <<>> THEN p
    ELSE protocol_events(protocol_event(p, Head(names)), Tail(names))

\* the sums after an iteration that got the command c and emitted names
protocol_after(c, names) ==
    protocol_events([protocol EXCEPT !.cmd = c, !.idle = (stream = NoStream),
                                     !.emitted = names], names)

\* one iteration of the while (1) of player_task: xQueueReceive, the
\* command, send_chunk and its result, the throttled PROGRESS callback
player_task_iteration ==
    /\ ppc = "loop"
    /\ \E c \in ThrottleCommands, f \in Files, ok \in BOOLEAN,
          io \in {"ok", "error"} :
         /\ c = "none" => stream # NoStream
         /\ LET s == throttle_stream(c, f, ok)
                last == throttle_last(c, ok)
                ev == throttle_event(c, f, ok)
            IN  /\ IF s = NoStream
                   THEN \* no stream: back to the queue
                        /\ stream' = NoStream
                        /\ events' = ev
                        /\ last_progress_tick' = last
                        /\ UNCHANGED <<progress_at, progress_gap>>
                   ELSE IF io = "error"
                   THEN /\ stream' = NoStream
                        /\ events' = Emit(ev, Event("ERROR", NULL))
                        /\ last_progress_tick' = last
                        /\ UNCHANGED <<progress_at, progress_gap>>
                   ELSE IF s.position = FileChunks(s.filename)
                   THEN \* written == 0: the end of the stream
                        /\ stream' = NoStream
                        /\ events' = Emit(ev, Event("STOPPED", NULL))
                        /\ last_progress_tick' = last
                        /\ UNCHANGED <<progress_at, progress_gap>>
                   ELSE /\ stream' = [s EXCEPT !.position = @ + 1]
                        /\ IF tick - last >= ProgressInterval
                           THEN /\ last_progress_tick' = tick
                                /\ events' = Emit(ev, Event("PROGRESS", NULL))
                                /\ progress_at' = tick
                                /\ progress_gap' = IF progress_at >= 0
                                                   THEN tick - progress_at
                                                   ELSE progress_gap
                           ELSE /\ last_progress_tick' = last
                                /\ events' = ev
                                /\ UNCHANGED <<progress_at, progress_gap>>
                /\ protocol' = protocol_after(c, throttle_emitted(c, ok, io, s, last))
         /\ sd_gpio' = throttle_amp(c, stream')
    /\ UNCHANGED <<provider_vars, ppc, cmd, cmd_queue, entry, last_format,
                   preload_vars, tick, api_vars, not_api_throttle>>

\* the tick interrupt while the player task runs
throttle_tick ==
    /\ tick < MaxProgressTick
    /\ tick' = tick + 1
    /\ UNCHANGED <<provider_vars, player_vars, preload_vars, api_vars,
                   throttle_vars, not_api_throttle>>

ThrottleNext == player_task_iteration \/ throttle_tick

SpecThrottle == Init /\ [][ThrottleNext]_vars

\* within one stream the throttle holds: while the stream that reported
\* last is open, last_progress_tick is the tick of its last PROGRESS, and a
\* PROGRESS that is not the first of its stream comes an interval later
C32_SameStream ==
    /\ (stream # NoStream /\ last_progress_tick > 0) =>
          last_progress_tick = progress_at
    /\ progress_at >= 0 => progress_at >= ProgressInterval

\* the stream that has reported goes on (no Play in this iteration) and
\* reports again
C32_Step ==
    (stream # NoStream /\ last_progress_tick > 0
       /\ stream'.filename = stream.filename
       /\ stream'.position = stream.position + 1
       /\ last_progress_tick' # last_progress_tick)
    => /\ progress_at' = tick
       /\ progress_gap' = tick - progress_at
       /\ progress_gap' >= ProgressInterval

C32_WithinStream == [](C32_SameStream) /\ [][C32_Step]_vars

\* C32: Progress events are emitted at most once per throttle interval of
\* the tick counter: two consecutive Progress events, in the same stream or
\* across a Play that replaces the stream, are at least one throttle
\* interval apart.
C32_Throttle == progress_gap >= 0 => progress_gap >= ProgressInterval

\* ---------------------------------------------------------------------
\* The order of the player's events (event_cb)

\* the last iteration got a Stop with no stream open
idle_stop == protocol.cmd \in {"stop_now", "stop_later"} /\ protocol.idle

\* C36 (amended): every Stopped and every Progress is preceded by a Started
\* with no Stopped or Error in between; a Started is open exactly while a
\* stream is, and two Starteds have at least one Stopped or Error between
\* them, the first of which closes the stream and the others being Errors
\* of Plays that failed; a Stop processed while idle emits no event.
C36_Protocol ==
    /\ ~protocol.orphan
    /\ protocol.open <=> stream # NoStream
    /\ protocol.between >= 0 => protocol.between >= 1
    /\ idle_stop => protocol.emitted = <<>>

\* a Started, its Stopped, the Error of a Play that failed, a Started
C36_Witness ==
    /\ protocol.between = 2
    /\ protocol.emitted = <<"STARTED">>
    /\ stream # NoStream

\* C36: every Stopped and every Progress is preceded by a Started with no
\* Stopped or Error in between; every Started is followed by exactly one
\* Stopped or Error before the next Started; a Stop processed while idle
\* emits no event; Error is the only event that can come without a Started
\* before it.
C36_EventProtocol ==
    /\ ~protocol.orphan
    /\ protocol.between >= 0 => protocol.between = 1
    /\ idle_stop => protocol.emitted = <<>>

====
